---- MODULE Spec2Model ----
(***************************************************************************)
(* The in-memory cache adapter of utils/tools/gcache (AdapterMemory) with  *)
(* its data map, event list, expire indexes, LRU list and sweeper.         *)
(*                                                                         *)
(* Time is the value of gtime.TimestampMilli(), in milliseconds, held in   *)
(* the variable now.  A time.Duration is a number of duration units; the   *)
(* code has 1000000 of them (nanoseconds) in a millisecond, the model has  *)
(* NanosPerMilli, so that a duration below one millisecond exists and the  *)
(* truncating division of getInternalExpire is a real conversion.          *)
(***************************************************************************)
EXTENDS Integers, Sequences, FiniteSets, TLC

\* ---------------------------------------------------------------- bounds
\* Number of times the clock may advance in a behaviour.
MaxAdvance == 2
\* Longest event list a public operation may leave behind.
MaxEvents == 1

\* ------------------------------------------------------ program constants
\* The length of an expire bucket in milliseconds (makeExpireKey), also the
\* sweeper's step between the buckets it scans.
MsPerSecond == 1000
\* The number of buckets one sweeper run scans (for i := 1; i <= 5).
SweepWindow == 5
\* Duration units in a millisecond: duration.Nanoseconds()/1000000 in the
\* code, scaled down to the smallest value that keeps a sub-millisecond
\* duration.
NanosPerMilli == 2
\* defaultMaxExpire, the expire timestamp of an item that never expires:
\* 9223372036854 in the code, scaled down by 10^6 to fit the 32-bit
\* integers of TLC; it stays far above every clock value the model reaches.
defaultMaxExpire == 9223372

\* The clock starts on a second boundary and advances by half a second, so
\* that timestamps on a boundary and inside a second both occur.
StartMs == 10 * MsPerSecond
ClockStep == MsPerSecond \div 2
MaxNow == StartMs + MaxAdvance * ClockStep

\* ----------------------------------------------------------------- inputs
AllKeys == {"k1", "k2"}
Nil == "nil"
Vals == {"v1", "v2"}
ValsOrNil == Vals \cup {Nil}
\* Durations a caller passes: negative (half a second, and less than a
\* millisecond), zero, positive (less than a millisecond, and half a second).
Durations == {-(ClockStep * NanosPerMilli), -1, 0, 1, ClockStep * NanosPerMilli}

VARIABLES
    now,          \* gtime.TimestampMilli()
    data,         \* memoryData.data: key -> item, or NoItem when the key is not in the map
    eventList,    \* AdapterMemory.eventList: sequence of adapterMemoryEvent
    expireTimes,  \* memoryExpireTimes.expireTimes: key -> bucket, 0 when not in the map
    expireSets,   \* memoryExpireSets.expireSets: bucket -> set of keys
    lru,          \* AdapterMemory.lru: [on, cap, list], list front first
    closed,       \* AdapterMemory.closed
    timerExited,  \* the sweeper's timer entry has called gtimer.Exit()
    last,         \* the last public operation that returned, with its results
    pc,           \* per task: the statement a call in progress has reached
    loc,          \* per task: the arguments and locals of its call
    sw,           \* the sweeper's run in progress: statement, loop counter, locals
    call,         \* per task: the call of a race, its arguments, locals and results
    abs,          \* the map the writes and removes made so far compose to
    hist,         \* the calls that have returned, in order (kept by LruSpec)
    mu            \* per mutex: the tasks that hold it, each with its mode (kept by LockSpec)

vars == <<now, data, eventList, expireTimes, expireSets, lru, closed, timerExited, last,
          pc, loc, sw, call, abs, hist, mu>>

\* ------------------------------------------------------------ data types
\* memoryData.mu and memoryLru.mu with no holder.
NoLocks == [m \in {"data", "lru"} |-> {}]

\* A key that is not in the data map.
NoItem == [has |-> FALSE, v |-> Nil, e |-> 0]
\* memoryDataItem{v, e}
Item(v, e) == [has |-> TRUE, v |-> v, e |-> e]
\* A nil *gvar.Var.
NilVar == [isNil |-> TRUE, val |-> Nil]
\* gvar.New(v): a Var holding v; the pointer is never nil, also for a nil v.
gvarNew(v) == [isNil |-> FALSE, val |-> v]
\* A plain value passed where the code accepts value-or-function.
Plain(v) == [fn |-> FALSE, res |-> v, err |-> FALSE]
\* A gcache.Func returning (res, err).
Func(res, err) == [fn |-> TRUE, res |-> res, err |-> err]

\* Go's integer division truncates toward zero.
GoDiv(a, b) == IF a >= 0 THEN a \div b ELSE -((-a) \div b)

\* ------------------------------------------------------- pure functions
\* Mutant of getInternalExpire: the duration added without the conversion
\* to milliseconds.
getInternalExpire_NoConversion(duration, t) ==
    IF duration = 0 THEN defaultMaxExpire ELSE t + duration

getInternalExpire(duration, t) ==
    IF duration = 0 THEN defaultMaxExpire
    ELSE t + GoDiv(duration, NanosPerMilli)

\* int64(math.Ceil(float64(expire/1000)+1) * 1000): the division is the
\* integer one, so Ceil receives a whole number.
\* Mutant of makeExpireKey: the quotient rounded up, without the added 1.
makeExpireKey_CeilOnly(expire) ==
    IF expire % MsPerSecond = 0 THEN expire
    ELSE (GoDiv(expire, MsPerSecond) + 1) * MsPerSecond

makeExpireKey(expire) == (GoDiv(expire, MsPerSecond) + 1) * MsPerSecond

\* Mutant of IsExpired: the expiry check left out.
IsExpired_Never(item, t) == FALSE

IsExpired(item, t) == item.e < t

\* time.Duration(ms) * time.Millisecond
Millis(ms) == ms * NanosPerMilli


\* ------------------------------------------------------------ memoryData
\* Each operator is one critical section of memoryData.mu.

memoryData_Get(d, key) == d[key]

memoryData_Set(d, key, item) == [d EXCEPT ![key] = item]

\* Mutant of Update: the expire timestamp is not kept.
memoryData_Update_DropsExpiry(d, key, value) ==
    IF d[key].has
    THEN [data |-> [d EXCEPT ![key] = Item(value, defaultMaxExpire)],
          oldValue |-> d[key].v, exist |-> TRUE]
    ELSE [data |-> d, oldValue |-> Nil, exist |-> FALSE]

memoryData_Update(d, key, value) ==
    IF d[key].has
    THEN [data |-> [d EXCEPT ![key] = Item(value, d[key].e)],
          oldValue |-> d[key].v, exist |-> TRUE]
    ELSE [data |-> d, oldValue |-> Nil, exist |-> FALSE]

memoryData_UpdateExpire(d, key, expireTime, t) ==
    IF d[key].has
    THEN [data |-> [d EXCEPT ![key] = Item(d[key].v, expireTime)],
          oldDuration |-> Millis(d[key].e - t)]
    ELSE [data |-> d, oldDuration |-> -1]

\* Mutant of Remove: the value of the first key that was present is returned.
RECURSIVE memoryData_Remove_FirstValue(_, _)
memoryData_Remove_FirstValue(d, keys) ==
    IF keys = <<>>
    THEN [data |-> d, removedKeys |-> <<>>, value |-> Nil]
    ELSE LET key == Head(keys)
             ok == d[key].has
             rest == memoryData_Remove_FirstValue(
                         IF ok THEN [d EXCEPT ![key] = NoItem] ELSE d, Tail(keys))
         IN [data |-> rest.data,
             removedKeys |-> IF ok THEN <<key>> \o rest.removedKeys ELSE rest.removedKeys,
             value |-> IF ok THEN d[key].v ELSE rest.value]

RECURSIVE memoryData_Remove(_, _)
memoryData_Remove(d, keys) ==
    IF keys = <<>>
    THEN [data |-> d, removedKeys |-> <<>>, value |-> Nil]
    ELSE LET key == Head(keys)
             ok == d[key].has
             rest == memoryData_Remove(IF ok THEN [d EXCEPT ![key] = NoItem] ELSE d,
                                       Tail(keys))
         IN [data |-> rest.data,
             removedKeys |-> IF ok THEN <<key>> \o rest.removedKeys ELSE rest.removedKeys,
             \* `value` keeps the item of the last key that was present
             value |-> IF rest.removedKeys # <<>> THEN rest.value
                       ELSE IF ok THEN d[key].v ELSE Nil]

memoryData_Clear(d) == [k \in DOMAIN d |-> NoItem]

memoryData_Delete(d, key) == [d EXCEPT ![key] = NoItem]

\* Mutant of SetWithLock: the function runs before the check of the key.
memoryData_SetWithLock_ProducerFirst(d, key, value, expireTimestamp, t) ==
    IF d[key].has /\ ~IsExpired(d[key], t)
    THEN [data |-> d, ret |-> d[key].v, err |-> FALSE, called |-> value.fn]
    ELSE IF value.fn /\ value.err
    THEN [data |-> d, ret |-> Nil, err |-> TRUE, called |-> TRUE]
    ELSE IF value.fn /\ value.res = Nil
    THEN [data |-> d, ret |-> Nil, err |-> FALSE, called |-> TRUE]
    ELSE [data |-> [d EXCEPT ![key] = Item(value.res, expireTimestamp)],
          ret |-> value.res, err |-> FALSE, called |-> value.fn]

\* Mutant of SetWithLock: no check of the key before the write.
memoryData_SetWithLock_NoDoubleCheck(d, key, value, expireTimestamp, t) ==
    IF value.fn /\ value.err
    THEN [data |-> d, ret |-> Nil, err |-> TRUE, called |-> TRUE]
    ELSE IF value.fn /\ value.res = Nil
    THEN [data |-> d, ret |-> Nil, err |-> FALSE, called |-> TRUE]
    ELSE [data |-> [d EXCEPT ![key] = Item(value.res, expireTimestamp)],
          ret |-> value.res, err |-> FALSE, called |-> value.fn]

\* `value` is Plain(v) or Func(res, err); the function runs inside the lock.
memoryData_SetWithLock(d, key, value, expireTimestamp, t) ==
    IF d[key].has /\ ~IsExpired(d[key], t)
    THEN [data |-> d, ret |-> d[key].v, err |-> FALSE, called |-> FALSE]
    ELSE IF value.fn /\ value.err
    THEN [data |-> d, ret |-> Nil, err |-> TRUE, called |-> TRUE]
    ELSE IF value.fn /\ value.res = Nil
    THEN [data |-> d, ret |-> Nil, err |-> FALSE, called |-> TRUE]
    ELSE [data |-> [d EXCEPT ![key] = Item(value.res, expireTimestamp)],
          ret |-> value.res, err |-> FALSE, called |-> value.fn]

\* Data(), Keys(), Size(): only the items with e > nowMilli.
memoryData_Keys(d, t) == {k \in DOMAIN d : d[k].has /\ d[k].e > t}
memoryData_Data(d, t) == [k \in memoryData_Keys(d, t) |-> d[k].v]
memoryData_Size(d, t) == Cardinality(memoryData_Keys(d, t))

\* ------------------------------------------------------------- memoryLru
\* lru = [on, cap, list]: on is FALSE for a nil *memoryLru; list holds the
\* keys front first; the key -> element map of the code always has the
\* keys of the list (both change inside memoryLru.mu).

NoLru == [on |-> FALSE, cap |-> 0, list |-> <<>>]
newMemoryLru(cap) == [on |-> TRUE, cap |-> cap, list |-> <<>>]

SeqRemove(seq, x) == SelectSeq(seq, LAMBDA y : y # x)
InSeq(seq, x) == \E i \in 1..Len(seq) : seq[i] = x

\* Mutant of doSaveAndEvict: the overflow takes the front of the list.
doSaveAndEvict_PopFront(l, key) ==
    IF InSeq(l.list, key) /\ Head(l.list) = key
    THEN [lru |-> l, evictedKey |-> Nil]
    ELSE LET pushed == <<key>> \o SeqRemove(l.list, key)
         IN IF Len(pushed) <= l.cap
            THEN [lru |-> [l EXCEPT !.list = pushed], evictedKey |-> Nil]
            ELSE [lru |-> [l EXCEPT !.list = Tail(pushed)], evictedKey |-> Head(pushed)]

doSaveAndEvict(l, key) ==
    IF InSeq(l.list, key) /\ Head(l.list) = key
    THEN [lru |-> l, evictedKey |-> Nil]
    ELSE LET pushed == <<key>> \o SeqRemove(l.list, key)
         IN IF Len(pushed) <= l.cap
            THEN [lru |-> [l EXCEPT !.list = pushed], evictedKey |-> Nil]
            ELSE [lru |-> [l EXCEPT !.list = SubSeq(pushed, 1, Len(pushed) - 1)],
                  evictedKey |-> pushed[Len(pushed)]]

RECURSIVE SaveAndEvict(_, _)
SaveAndEvict(l, keys) ==
    IF ~l.on \/ keys = <<>>
    THEN [lru |-> l, evictedKeys |-> <<>>]
    ELSE LET one == doSaveAndEvict(l, Head(keys))
             rest == SaveAndEvict(one.lru, Tail(keys))
         IN [lru |-> rest.lru,
             evictedKeys |-> IF one.evictedKey # Nil
                             THEN <<one.evictedKey>> \o rest.evictedKeys
                             ELSE rest.evictedKeys]

RECURSIVE memoryLru_Remove(_, _)
memoryLru_Remove(l, keys) ==
    IF ~l.on \/ keys = <<>> THEN l
    ELSE memoryLru_Remove([l EXCEPT !.list = SeqRemove(l.list, Head(keys))], Tail(keys))

memoryLru_Clear(l) == IF l.on THEN [l EXCEPT !.list = <<>>] ELSE l

\* --------------------------------------------------------- AdapterMemory
\* The part of the adapter the public operations write: s = [data,
\* eventList, lru].  Each operator below is the effect of a whole call at
\* clock value t, in the order of its statements.

adapterMemoryEvent(k, e) == [k |-> k, e |-> e]

RECURSIVE PushRemoved(_, _, _)
PushRemoved(events, keys, t) ==
    IF keys = <<>> THEN events
    ELSE PushRemoved(Append(events, adapterMemoryEvent(Head(keys), t - MsPerSecond)),
                     Tail(keys), t)

doRemove(s, keys, t) ==
    LET r == memoryData_Remove(s.data, keys)
    IN [s |-> [s EXCEPT !.data = r.data,
                        !.eventList = PushRemoved(s.eventList, r.removedKeys, t)],
        ret |-> gvarNew(r.value)]

handleLruKey(s, keys, t) ==
    IF ~s.lru.on THEN s
    ELSE LET r == SaveAndEvict(s.lru, keys)
             s1 == [s EXCEPT !.lru = r.lru]
         IN IF Len(r.evictedKeys) > 0 THEN doRemove(s1, r.evictedKeys, t).s ELSE s1


\* Pushes the event also when SetWithLock wrote nothing.
doSetWithLockCheck(s, key, value, duration, t) ==
    LET expireTimestamp == getInternalExpire(duration, t)
        r == memoryData_SetWithLock(s.data, key, value, expireTimestamp, t)
    IN [s |-> [s EXCEPT !.data = r.data,
                        !.eventList = Append(s.eventList,
                                             adapterMemoryEvent(key, expireTimestamp))],
        ret |-> gvarNew(r.ret), err |-> r.err]

Set(s, key, value, duration, t) ==
    LET expireTime == getInternalExpire(duration, t)
        s1 == [s EXCEPT !.data = memoryData_Set(s.data, key, Item(value, expireTime)),
                        !.eventList = Append(s.eventList,
                                             adapterMemoryEvent(key, expireTime))]
    IN [s |-> handleLruKey(s1, <<key>>, t)]

\* Mutant of Get: the key is not saved in the LRU list.
Get_NoTouch(s, key, t) ==
    LET item == memoryData_Get(s.data, key)
    IN IF item.has /\ ~IsExpired(item, t)
       THEN [s |-> s, ret |-> gvarNew(item.v)]
       ELSE [s |-> s, ret |-> NilVar]

\* Mutant of Get: an expired item is still returned.
Get_IgnoresExpiry(s, key, t) ==
    LET item == memoryData_Get(s.data, key)
    IN IF item.has
       THEN [s |-> handleLruKey(s, <<key>>, t), ret |-> gvarNew(item.v)]
       ELSE [s |-> s, ret |-> NilVar]

Get(s, key, t) ==
    LET item == memoryData_Get(s.data, key)
    IN IF item.has /\ ~IsExpired(item, t)
       THEN [s |-> handleLruKey(s, <<key>>, t), ret |-> gvarNew(item.v)]
       ELSE [s |-> s, ret |-> NilVar]

Contains(s, key, t) ==
    LET r == Get(s, key, t)
    IN [s |-> r.s, ret |-> ~r.ret.isNil]

GetExpire(s, key, t) ==
    LET item == memoryData_Get(s.data, key)
    IN IF item.has
       THEN [s |-> handleLruKey(s, <<key>>, t), ret |-> Millis(item.e - t)]
       ELSE [s |-> s, ret |-> -1]

SetIfNotExist(s, key, value, duration, t) ==
    LET c == Contains(s, key, t)
    IN IF ~c.ret
       THEN LET r == doSetWithLockCheck(c.s, key, Plain(value), duration, t)
            IN [s |-> handleLruKey(r.s, <<key>>, t), ret |-> ~r.err, err |-> r.err]
       ELSE [s |-> handleLruKey(c.s, <<key>>, t), ret |-> FALSE, err |-> FALSE]

\* f runs outside the lock; its result goes to SetWithLock as a plain value.
SetIfNotExistFunc(s, key, f, duration, t) ==
    LET c == Contains(s, key, t)
    IN IF ~c.ret
       THEN IF f.err
            THEN [s |-> handleLruKey(c.s, <<key>>, t), ret |-> FALSE, err |-> TRUE]
            ELSE LET r == doSetWithLockCheck(c.s, key, Plain(f.res), duration, t)
                 IN [s |-> handleLruKey(r.s, <<key>>, t), ret |-> ~r.err, err |-> r.err]
       ELSE [s |-> handleLruKey(c.s, <<key>>, t), ret |-> FALSE, err |-> FALSE]

\* f goes to SetWithLock and runs inside the lock.
SetIfNotExistFuncLock(s, key, f, duration, t) ==
    LET c == Contains(s, key, t)
    IN IF ~c.ret
       THEN LET r == doSetWithLockCheck(c.s, key, f, duration, t)
            IN [s |-> handleLruKey(r.s, <<key>>, t), ret |-> ~r.err, err |-> r.err]
       ELSE [s |-> handleLruKey(c.s, <<key>>, t), ret |-> FALSE, err |-> FALSE]

GetOrSet(s, key, value, duration, t) ==
    LET g == Get(s, key, t)
    IN IF g.ret.isNil
       THEN LET r == doSetWithLockCheck(g.s, key, Plain(value), duration, t)
            IN [s |-> handleLruKey(r.s, <<key>>, t), ret |-> r.ret, err |-> r.err]
       ELSE [s |-> handleLruKey(g.s, <<key>>, t), ret |-> g.ret, err |-> FALSE]

GetOrSetFunc(s, key, f, duration, t) ==
    LET g == Get(s, key, t)
    IN IF g.ret.isNil
       THEN IF f.err
            THEN [s |-> handleLruKey(g.s, <<key>>, t), ret |-> NilVar, err |-> TRUE]
            ELSE IF f.res = Nil
            THEN [s |-> handleLruKey(g.s, <<key>>, t), ret |-> NilVar, err |-> FALSE]
            ELSE LET r == doSetWithLockCheck(g.s, key, Plain(f.res), duration, t)
                 IN [s |-> handleLruKey(r.s, <<key>>, t), ret |-> r.ret, err |-> r.err]
       ELSE [s |-> handleLruKey(g.s, <<key>>, t), ret |-> g.ret, err |-> FALSE]

GetOrSetFuncLock(s, key, f, duration, t) ==
    LET g == Get(s, key, t)
    IN IF g.ret.isNil
       THEN LET r == doSetWithLockCheck(g.s, key, f, duration, t)
            IN [s |-> handleLruKey(r.s, <<key>>, t), ret |-> r.ret, err |-> r.err]
       ELSE [s |-> handleLruKey(g.s, <<key>>, t), ret |-> g.ret, err |-> FALSE]

Remove(s, keys, t) ==
    LET r == doRemove(s, keys, t)
    IN [s |-> [r.s EXCEPT !.lru = memoryLru_Remove(r.s.lru, keys)], ret |-> r.ret]

Update(s, key, value, t) ==
    LET r == memoryData_Update(s.data, key, value)
        s1 == [s EXCEPT !.data = r.data]
    IN [s |-> IF r.exist THEN handleLruKey(s1, <<key>>, t) ELSE s1,
        oldValue |-> gvarNew(r.oldValue), exist |-> r.exist]

UpdateExpire(s, key, duration, t) ==
    LET newExpireTime == getInternalExpire(duration, t)
        r == memoryData_UpdateExpire(s.data, key, newExpireTime, t)
        s1 == [s EXCEPT !.data = r.data]
    IN IF r.oldDuration # -1
       THEN [s |-> handleLruKey([s1 EXCEPT !.eventList =
                                     Append(s1.eventList,
                                            adapterMemoryEvent(key, newExpireTime))],
                                <<key>>, t),
             oldDuration |-> r.oldDuration]
       ELSE [s |-> s1, oldDuration |-> r.oldDuration]

Clear(s) ==
    [s |-> [s EXCEPT !.data = memoryData_Clear(s.data), !.lru = memoryLru_Clear(s.lru)]]

\* --------------------------------------------------------------- sweeper
\* expireSets.GetOrNew(b).Add(k) and .Remove(k); GetOrNew creates the set.
expireSets_Add(es, b, k) ==
    [x \in DOMAIN es \cup {b} |-> IF x = b
                                  THEN (IF b \in DOMAIN es THEN es[b] ELSE {}) \cup {k}
                                  ELSE es[x]]
expireSets_Remove(es, b, k) ==
    [x \in DOMAIN es \cup {b} |-> IF x = b
                                  THEN (IF b \in DOMAIN es THEN es[b] ELSE {}) \ {k}
                                  ELSE es[x]]
expireSets_Delete(es, b) == [x \in DOMAIN es \ {b} |-> es[x]]

\* One pass of the event loop: ix = [expireTimes, expireSets].
syncEvent(ix, event) ==
    LET oldExpireTime == ix.expireTimes[event.k]
        newExpireTime == makeExpireKey(event.e)
    IN IF newExpireTime # oldExpireTime
       THEN LET added == expireSets_Add(ix.expireSets, newExpireTime, event.k)
            IN [expireTimes |-> [ix.expireTimes EXCEPT ![event.k] = newExpireTime],
                expireSets |-> IF oldExpireTime # 0
                               THEN expireSets_Remove(added, oldExpireTime, event.k)
                               ELSE added]
       ELSE ix

RECURSIVE syncEvents(_, _)
syncEvents(ix, events) ==
    IF events = <<>> THEN ix ELSE syncEvents(syncEvent(ix, Head(events)), Tail(events))

\* deleteExpiredKey: no check of the stored item before the delete.
deleteExpiredKey(w, key) ==
    [w EXCEPT !.data = memoryData_Delete(w.data, key),
              !.expireTimes = [w.expireTimes EXCEPT ![key] = 0]]

\* The keys of one bucket: deleteExpiredKey and lru.Remove for each.
RECURSIVE clearKeys(_, _)
clearKeys(w, keys) ==
    IF keys = {} THEN w
    ELSE LET key == CHOOSE k \in keys : TRUE
             w1 == deleteExpiredKey(w, key)
         IN clearKeys([w1 EXCEPT !.lru = memoryLru_Remove(w1.lru, <<key>>)], keys \ {key})

\* The scan of the buckets currentEk - i*1000, i = from..5:
\* w = [data, expireTimes, expireSets, lru].
RECURSIVE clearExpired(_, _, _)
clearExpired(w, currentEk, i) ==
    IF i > SweepWindow THEN w
    ELSE LET expireTime == currentEk - i * MsPerSecond
         IN IF expireTime \in DOMAIN w.expireSets
            THEN LET w1 == clearKeys(w, w.expireSets[expireTime])
                 IN clearExpired([w1 EXCEPT !.expireSets =
                                      expireSets_Delete(w1.expireSets, expireTime)],
                                 currentEk, i + 1)
            ELSE clearExpired(w, currentEk, i + 1)

\* A whole run of the timer job on an open cache, at clock value t.
syncEventAndClearExpired(w, events, t) ==
    LET ix == syncEvents([expireTimes |-> w.expireTimes, expireSets |-> w.expireSets],
                         events)
    IN clearExpired([w EXCEPT !.expireTimes = ix.expireTimes,
                              !.expireSets = ix.expireSets],
                    makeExpireKey(t), 1)


\* ------------------------------------------------- sequential behaviours
\* Spec: public operations and sweeper runs that do not overlap.  Each
\* action is one whole call; the clock does not move during a call.

\* Keys the callers of Spec use.
SeqKeys == {"k1"}

S == [data |-> data, eventList |-> eventList, lru |-> lru]
Commit(s) == data' = s.data /\ eventList' = s.eventList /\ lru' = s.lru

\* The record of the last call that has returned: its arguments and results.
\* e is the expire timestamp the call computed from d (0 when it takes no duration).
Returned(op, k, v, d, e, var, ok, dur) ==
    [op |-> op, k |-> k, v |-> v, d |-> d, e |-> e, var |-> var, ok |-> ok, dur |-> dur]

NoCall == [op |-> "New", k |-> "k1", v |-> Nil, d |-> 0, e |-> 0, var |-> NilVar, ok |-> FALSE,
           dur |-> 0]

\* Tasks that call the cache concurrently.
Tasks == {"t1", "t2"}
NoLocals == [k |-> "k1", v |-> Nil, d |-> 0, e |-> 0]
SweeperIdle == [pc |-> "idle", i |-> 0, currentEk |-> 0, keys |-> {}]
\* A task that has not called yet: op, the value or producer f it passes, the
\* duration d; its locals: value (what f returned outside the lock), e (the
\* expire timestamp), v (what SetWithLock returned), called (f has run),
\* locked (SetWithLock has run); its results: var, ok, err; done.
NoRace == [op |-> "none", f |-> Plain(Nil), d |-> 0, value |-> Nil, e |-> 0, v |-> Nil,
           called |-> FALSE, locked |-> FALSE, var |-> NilVar, ok |-> FALSE,
           err |-> FALSE, done |-> FALSE]

Init ==
    /\ pc = [t \in Tasks |-> "idle"]
    /\ loc = [t \in Tasks |-> NoLocals]
    /\ sw = SweeperIdle
    /\ now = StartMs
    /\ data = [k \in AllKeys |-> NoItem]
    /\ eventList = <<>>
    /\ expireTimes = [k \in AllKeys |-> 0]
    /\ expireSets = [b \in {} |-> {}]
    /\ lru = NoLru
    /\ closed = FALSE
    /\ timerExited = FALSE
    /\ last = NoCall
    /\ call = [t \in Tasks |-> NoRace]
    /\ abs = [k \in AllKeys |-> Nil]
    /\ hist = <<>>
    /\ mu = NoLocks

\* A call runs if the event list it leaves is within the bound.
Room(s) == Len(s.eventList) <= MaxEvents
Quiet ==
    UNCHANGED <<now, expireTimes, expireSets, closed, timerExited, pc, loc, sw, call, abs, hist, mu>>

CallSet(k, v, d) ==
    /\ Room(Set(S, k, v, d, now).s)
    /\ Commit(Set(S, k, v, d, now).s)
    /\ last' = Returned("Set", k, v, d, getInternalExpire(d, now), NilVar, TRUE, 0)
    /\ Quiet

CallGet(k) ==
    LET r == Get(S, k, now)
    IN /\ Commit(r.s)
       /\ last' = Returned("Get", k, Nil, 0, 0, r.ret, ~r.ret.isNil, 0)
       /\ Quiet

CallContains(k) ==
    LET r == Contains(S, k, now)
    IN /\ Commit(r.s)
       /\ last' = Returned("Contains", k, Nil, 0, 0, NilVar, r.ret, 0)
       /\ Quiet

CallGetExpire(k) ==
    LET r == GetExpire(S, k, now)
    IN /\ Commit(r.s)
       /\ last' = Returned("GetExpire", k, Nil, 0, 0, NilVar, r.ret # -1, r.ret)
       /\ Quiet

CallSetIfNotExist(k, v, d) ==
    LET r == SetIfNotExist(S, k, v, d, now)
    IN /\ Room(r.s)
       /\ Commit(r.s)
       /\ last' = Returned("SetIfNotExist", k, v, d, getInternalExpire(d, now), NilVar, r.ret, 0)
       /\ Quiet

CallRemove(k) ==
    LET r == Remove(S, <<k>>, now)
    IN /\ Room(r.s)
       /\ Commit(r.s)
       /\ last' = Returned("Remove", k, Nil, 0, 0, r.ret, TRUE, 0)
       /\ Quiet

CallUpdate(k, v) ==
    LET r == Update(S, k, v, now)
    IN /\ Commit(r.s)
       /\ last' = Returned("Update", k, v, 0, 0, r.oldValue, r.exist, 0)
       /\ Quiet

CallUpdateExpire(k, d) ==
    LET r == UpdateExpire(S, k, d, now)
    IN /\ Room(r.s)
       /\ Commit(r.s)
       /\ last' = Returned("UpdateExpire", k, Nil, d, getInternalExpire(d, now), NilVar,
                           r.oldDuration # -1, r.oldDuration)
       /\ Quiet

CallClose ==
    /\ ~closed
    /\ closed' = TRUE
    /\ last' = Returned("Close", "k1", Nil, 0, 0, NilVar, TRUE, 0)
    /\ UNCHANGED <<now, data, eventList, expireTimes, expireSets, lru, timerExited,
                   pc, loc, sw, call, abs, hist, mu>>

\* gtimer.Exit(): the job leaves the timer and is not run again.
gtimer_Exit == timerExited' = TRUE

\* The timer runs the job; a closed cache makes it exit for good.
SweeperRun ==
    /\ ~timerExited
    /\ IF closed
       THEN /\ gtimer_Exit
            /\ UNCHANGED <<data, eventList, expireTimes, expireSets, lru>>
       ELSE LET w == syncEventAndClearExpired(
                        [data |-> data, expireTimes |-> expireTimes,
                         expireSets |-> expireSets, lru |-> lru], eventList, now)
            IN /\ data' = w.data
               /\ expireTimes' = w.expireTimes
               /\ expireSets' = w.expireSets
               /\ lru' = w.lru
               /\ eventList' = <<>>
               /\ UNCHANGED timerExited
    /\ UNCHANGED <<now, closed, last, pc, loc, sw, call, abs, hist, mu>>

Advance ==
    /\ now < MaxNow
    /\ now' = now + ClockStep
    /\ UNCHANGED <<data, eventList, expireTimes, expireSets, lru, closed, timerExited, last,
                   pc, loc, sw, call, abs, hist, mu>>

Next ==
    \/ \E k \in SeqKeys, v \in ValsOrNil, d \in Durations : CallSet(k, v, d)
    \/ \E k \in SeqKeys : CallGet(k)
    \/ \E k \in SeqKeys : CallContains(k)
    \/ \E k \in SeqKeys : CallGetExpire(k)
    \/ \E k \in SeqKeys, v \in ValsOrNil, d \in Durations : CallSetIfNotExist(k, v, d)
    \/ \E k \in SeqKeys : CallRemove(k)
    \/ \E k \in SeqKeys, v \in ValsOrNil : CallUpdate(k, v)
    \/ \E k \in SeqKeys, d \in Durations : CallUpdateExpire(k, d)
    \/ CallClose
    \/ SweeperRun
    \/ Advance

Spec == Init /\ [][Next]_vars

\* BucketSpec: the bucket of one expire timestamp.  Set(k1, v1, d) has
\* returned at StartMs with d = (e - StartMs) milliseconds for an e from 0
\* to two seconds past StartMs; its event is pending, and one sweeper run
\* passes e to makeExpireKey.
BucketInputs == 0..(StartMs + 2 * MsPerSecond)

BucketInit ==
    /\ pc = [t \in Tasks |-> "idle"]
    /\ loc = [t \in Tasks |-> NoLocals]
    /\ sw = SweeperIdle
    /\ now = StartMs
    /\ \E e \in BucketInputs :
          /\ data = [k \in AllKeys |-> IF k = "k1" THEN Item("v1", e) ELSE NoItem]
          /\ eventList = <<adapterMemoryEvent("k1", e)>>
    /\ expireTimes = [k \in AllKeys |-> 0]
    /\ expireSets = [b \in {} |-> {}]
    /\ lru = NoLru
    /\ closed = FALSE
    /\ timerExited = FALSE
    /\ last = NoCall
    /\ call = [t \in Tasks |-> NoRace]
    /\ abs = [k \in AllKeys |-> Nil]
    /\ hist = <<>>
    /\ mu = NoLocks

BucketNext == eventList # <<>> /\ SweeperRun

BucketSpec == BucketInit /\ [][BucketNext]_vars


\* ------------------------------------------------- concurrent behaviours
\* ConcSpec: tasks call the cache while the sweeper runs; a step is one
\* critical section of one mutex (memoryData.mu, the event list's lock),
\* and steps of different tasks and of the sweeper interleave freely, with
\* the clock advancing in between.  The cache has no LRU here, so
\* handleLruKey returns at `c.lru == nil` without a shared access.  The
\* expire indexes have the sweeper as their only user (the timer entry is a
\* singleton), so the sweeper's accesses to them join its neighbouring step.

ConcKeys == {"k1"}
ConcVals == {"v1", "v2"}
ConcDurations == {0, ClockStep * NanosPerMilli}

InFlight == Cardinality({t \in Tasks : pc[t] # "idle"})
\* A call starts only if every call in progress can still push its event;
\* each of the tasks may have one event pending on top of the bound.
ConcRoom == Len(eventList) + InFlight < MaxEvents + Cardinality(Tasks) - 1

TaskFrame ==
    UNCHANGED <<now, expireTimes, expireSets, lru, closed, timerExited, last, sw, call, abs, hist, mu>>

\* Set, line 70-74: getInternalExpire and c.data.Set.
T_SetData(t, k, v, d) ==
    /\ pc[t] = "idle" /\ ConcRoom
    /\ LET expireTime == getInternalExpire(d, now)
       IN /\ data' = memoryData_Set(data, k, Item(v, expireTime))
          /\ loc' = [loc EXCEPT ![t] = [k |-> k, v |-> v, d |-> d, e |-> expireTime]]
    /\ pc' = [pc EXCEPT ![t] = "Set_push"]
    /\ UNCHANGED eventList
    /\ TaskFrame

\* Set, line 75-79: c.eventList.PushBack, then the return.
T_SetPush(t) ==
    /\ pc[t] = "Set_push"
    /\ eventList' = Append(eventList, adapterMemoryEvent(loc[t].k, loc[t].e))
    /\ pc' = [pc EXCEPT ![t] = "idle"]
    /\ loc' = [loc EXCEPT ![t] = NoLocals]
    /\ UNCHANGED data
    /\ TaskFrame

\* SetIfNotExist, line 115-119: c.Contains; a contained key ends the call.
T_SetIfNotExistContains(t, k, v, d) ==
    /\ pc[t] = "idle" /\ ConcRoom
    /\ IF Contains(S, k, now).ret
       THEN UNCHANGED <<pc, loc>>
       ELSE /\ pc' = [pc EXCEPT ![t] = "SetIfNotExist_lock"]
            /\ loc' = [loc EXCEPT ![t] = [k |-> k, v |-> v, d |-> d, e |-> 0]]
    /\ UNCHANGED <<data, eventList>>
    /\ TaskFrame

\* doSetWithLockCheck, line 367-368: getInternalExpire and c.data.SetWithLock.
T_SetIfNotExistLock(t) ==
    /\ pc[t] = "SetIfNotExist_lock"
    /\ LET expireTimestamp == getInternalExpire(loc[t].d, now)
           r == memoryData_SetWithLock(data, loc[t].k, Plain(loc[t].v),
                                       expireTimestamp, now)
       IN /\ data' = r.data
          /\ loc' = [loc EXCEPT ![t].e = expireTimestamp]
    /\ pc' = [pc EXCEPT ![t] = "SetIfNotExist_push"]
    /\ UNCHANGED eventList
    /\ TaskFrame

\* doSetWithLockCheck, line 369: c.eventList.PushBack, then the return.
T_SetIfNotExistPush(t) ==
    /\ pc[t] = "SetIfNotExist_push"
    /\ eventList' = Append(eventList, adapterMemoryEvent(loc[t].k, loc[t].e))
    /\ pc' = [pc EXCEPT ![t] = "idle"]
    /\ loc' = [loc EXCEPT ![t] = NoLocals]
    /\ UNCHANGED data
    /\ TaskFrame

\* UpdateExpire, line 310-315: c.data.UpdateExpire; -1 ends the call.
T_UpdateExpireData(t, k, d) ==
    /\ pc[t] = "idle" /\ ConcRoom
    /\ LET newExpireTime == getInternalExpire(d, now)
           r == memoryData_UpdateExpire(data, k, newExpireTime, now)
       IN /\ data' = r.data
          /\ IF r.oldDuration # -1
             THEN /\ pc' = [pc EXCEPT ![t] = "UpdateExpire_push"]
                  /\ loc' = [loc EXCEPT ![t] = [k |-> k, v |-> Nil, d |-> d,
                                               e |-> newExpireTime]]
             ELSE UNCHANGED <<pc, loc>>
    /\ UNCHANGED eventList
    /\ TaskFrame

\* UpdateExpire, line 316-320: c.eventList.PushBack, then the return.
T_UpdateExpirePush(t) ==
    /\ pc[t] = "UpdateExpire_push"
    /\ eventList' = Append(eventList, adapterMemoryEvent(loc[t].k, loc[t].e))
    /\ pc' = [pc EXCEPT ![t] = "idle"]
    /\ loc' = [loc EXCEPT ![t] = NoLocals]
    /\ UNCHANGED data
    /\ TaskFrame

SweeperFrame == UNCHANGED <<now, closed, last, pc, loc, call, abs, hist, mu>>

\* Mutant of SweeperStart: the job does not look at c.closed.
SweeperStart_IgnoresClosed ==
    /\ sw.pc = "idle" /\ ~timerExited
    /\ sw' = [sw EXCEPT !.pc = "drain"]
    /\ UNCHANGED <<data, eventList, expireTimes, expireSets, lru, timerExited>>
    /\ SweeperFrame

\* syncEventAndClearExpired, line 390-393: the timer starts the job.
SweeperStart ==
    /\ sw.pc = "idle" /\ ~timerExited
    /\ IF closed
       THEN gtimer_Exit /\ UNCHANGED sw
       ELSE sw' = [sw EXCEPT !.pc = "drain"] /\ UNCHANGED timerExited
    /\ UNCHANGED <<data, eventList, expireTimes, expireSets, lru>>
    /\ SweeperFrame

\* line 402-421: one PopFront and the index update for its event; an empty
\* list ends the loop, and line 428 reads the clock for currentEk.
SweeperDrain ==
    /\ sw.pc = "drain"
    /\ IF eventList = <<>>
       THEN /\ sw' = [pc |-> "scan", i |-> 1, currentEk |-> makeExpireKey(now),
                      keys |-> {}]
            /\ UNCHANGED <<eventList, expireTimes, expireSets>>
       ELSE LET ix == syncEvent([expireTimes |-> expireTimes, expireSets |-> expireSets],
                                Head(eventList))
            IN /\ eventList' = Tail(eventList)
               /\ expireTimes' = ix.expireTimes
               /\ expireSets' = ix.expireSets
               /\ UNCHANGED sw
    /\ UNCHANGED <<data, lru, timerExited>>
    /\ SweeperFrame

\* line 431-435: the next bucket of the window that exists; Iterator takes
\* a copy of its keys (Set.Slice).  No bucket left ends the run.
SweeperScan ==
    /\ sw.pc = "scan"
    /\ LET found == {j \in sw.i..SweepWindow :
                        (sw.currentEk - j * MsPerSecond) \in DOMAIN expireSets}
       IN IF found = {}
          THEN sw' = SweeperIdle
          ELSE LET j == CHOOSE x \in found : \A y \in found : x <= y
               IN sw' = [sw EXCEPT !.pc = "keys", !.i = j,
                                   !.keys = expireSets[sw.currentEk - j * MsPerSecond]]
    /\ UNCHANGED <<data, eventList, expireTimes, expireSets, lru, timerExited>>
    /\ SweeperFrame

\* line 436-438: deleteExpiredKey and lru.Remove for one key of the copy.
SweeperDeleteKey ==
    /\ sw.pc = "keys"
    /\ \E key \in sw.keys :
          LET w == deleteExpiredKey([data |-> data, expireTimes |-> expireTimes], key)
          IN /\ data' = w.data
             /\ expireTimes' = w.expireTimes
             /\ lru' = memoryLru_Remove(lru, <<key>>)
             /\ sw' = [sw EXCEPT !.keys = sw.keys \ {key}]
    /\ UNCHANGED <<eventList, expireSets, timerExited>>
    /\ SweeperFrame

\* line 442: c.expireSets.Delete after the last key, then the next bucket.
SweeperDeleteSet ==
    /\ sw.pc = "keys" /\ sw.keys = {}
    /\ expireSets' = expireSets_Delete(expireSets, sw.currentEk - sw.i * MsPerSecond)
    /\ sw' = [sw EXCEPT !.pc = "scan", !.i = sw.i + 1]
    /\ UNCHANGED <<data, eventList, expireTimes, lru, timerExited>>
    /\ SweeperFrame

ConcNext ==
    \/ \E t \in Tasks, k \in ConcKeys, v \in ConcVals, d \in ConcDurations :
          T_SetData(t, k, v, d)
    \/ \E t \in Tasks : T_SetPush(t)
    \/ \E t \in Tasks, k \in ConcKeys, v \in ConcVals, d \in ConcDurations :
          T_SetIfNotExistContains(t, k, v, d)
    \/ \E t \in Tasks : T_SetIfNotExistLock(t)
    \/ \E t \in Tasks : T_SetIfNotExistPush(t)
    \/ \E t \in Tasks, k \in ConcKeys, d \in ConcDurations : T_UpdateExpireData(t, k, d)
    \/ \E t \in Tasks : T_UpdateExpirePush(t)
    \/ SweeperStart
    \/ SweeperDrain
    \/ SweeperScan
    \/ SweeperDeleteKey
    \/ SweeperDeleteSet
    \/ Advance

ConcSpec == Init /\ [][ConcNext]_vars

\* ------------------------------------------- whole calls on two keys
\* CallSpec: sequential whole calls on two keys of a cache made by New()
\* or New(1), with producers, multi-key Remove and sweeper runs in between.
\* Set writes "v1", the producers return "v1", nil or an error, and Update
\* writes "v2" or nil, so that a stored "v2" is the trace of an Update.

CallLrus == {NoLru, newMemoryLru(1)}
CallDurations == {0, ClockStep * NanosPerMilli}
\* Producers: a value, a nil result, an error.
CallFuncs == {Func("v1", FALSE), Func(Nil, FALSE), Func(Nil, TRUE)}
RemoveLists == {<<"k1">>, <<"k2">>, <<"k1", "k2">>, <<"k2", "k1">>, <<"k1", "k1">>}

CallInit ==
    /\ pc = [t \in Tasks |-> "idle"]
    /\ loc = [t \in Tasks |-> NoLocals]
    /\ sw = SweeperIdle
    /\ now = StartMs
    /\ data = [k \in AllKeys |-> NoItem]
    /\ eventList = <<>>
    /\ expireTimes = [k \in AllKeys |-> 0]
    /\ expireSets = [b \in {} |-> {}]
    /\ lru \in CallLrus
    /\ closed = FALSE
    /\ timerExited = FALSE
    /\ last = NoCall
    /\ call = [t \in Tasks |-> NoRace]
    /\ abs = [k \in AllKeys |-> Nil]
    /\ hist = <<>>
    /\ mu = NoLocks

\* A call runs if the event list it leaves holds no more events than one
\* call can push: one for each key (the keys removed, or the key set and
\* the key evicted).
CallRoom(s) == Len(s.eventList) <= Cardinality(AllKeys)

\* A whole call that leaves state s.
CallDone(s) ==
    /\ CallRoom(s)
    /\ Commit(s)
    /\ UNCHANGED last
    /\ Quiet

C_Set(k, v, d) ==
    CallDone(Set(S, k, v, d, now).s)

C_Update(k, v) ==
    LET r == Update(S, k, v, now)
    IN CallDone(r.s)

C_Remove(keys) ==
    LET r == Remove(S, keys, now)
    IN CallDone(r.s)

C_SetIfNotExistFunc(k, f, d) ==
    LET r == SetIfNotExistFunc(S, k, f, d, now)
    IN CallDone(r.s)

C_SetIfNotExistFuncLock(k, f, d) ==
    LET r == SetIfNotExistFuncLock(S, k, f, d, now)
    IN CallDone(r.s)

C_GetOrSetFunc(k, f, d) ==
    LET r == GetOrSetFunc(S, k, f, d, now)
    IN CallDone(r.s)

C_GetOrSetFuncLock(k, f, d) ==
    LET r == GetOrSetFuncLock(S, k, f, d, now)
    IN CallDone(r.s)

CallNext ==
    \/ \E k \in AllKeys, d \in CallDurations : C_Set(k, "v1", d)
    \/ \E k \in AllKeys, v \in {"v2", Nil} : C_Update(k, v)
    \/ \E keys \in RemoveLists : C_Remove(keys)
    \/ \E k \in AllKeys, f \in CallFuncs : C_SetIfNotExistFunc(k, f, 0)
    \/ \E k \in AllKeys, f \in CallFuncs : C_SetIfNotExistFuncLock(k, f, 0)
    \/ \E k \in AllKeys, f \in CallFuncs : C_GetOrSetFunc(k, f, 0)
    \/ \E k \in AllKeys, f \in CallFuncs : C_GetOrSetFuncLock(k, f, 0)
    \/ SweeperRun
    \/ Advance

CallSpec == CallInit /\ [][CallNext]_vars


\* ------------------------------------------- whole calls with LRU
\* LruSpec: sequential whole calls on three keys of a cache made by New()
\* or New(cap), with sweeper runs in between.  No entry expires.  hist is
\* the sequence of the calls that have returned: the operation, its key
\* and whether it found or wrote the key.

LruKeys == AllKeys \cup {"k3"}

\* New: no argument leaves c.lru nil, an argument makes an LRU of that cap.
New(lruCap) == IF lruCap = <<>> THEN NoLru ELSE newMemoryLru(lruCap[1])
LruCaps == {<<>>, <<0>>, <<1>>, <<2>>}

\* Calls of one history: one Set per key and one more call.
MaxCalls == Cardinality(LruKeys) + 1

LruInit ==
    /\ pc = [t \in Tasks |-> "idle"]
    /\ loc = [t \in Tasks |-> NoLocals]
    /\ sw = SweeperIdle
    /\ now = StartMs
    /\ data = [k \in LruKeys |-> NoItem]
    /\ eventList = <<>>
    /\ expireTimes = [k \in LruKeys |-> 0]
    /\ expireSets = [b \in {} |-> {}]
    /\ lru \in {New(lruCap) : lruCap \in LruCaps}
    /\ closed = FALSE
    /\ timerExited = FALSE
    /\ last = NoCall
    /\ call = [t \in Tasks |-> NoRace]
    /\ abs = [k \in AllKeys |-> Nil]
    /\ hist = <<>>
    /\ mu = NoLocks

Called(op, k, ok) == [op |-> op, k |-> k, ok |-> ok]

LruDone(s, h) ==
    /\ Len(hist) < MaxCalls
    /\ Commit(s)
    /\ hist' = Append(hist, h)
    /\ UNCHANGED <<now, expireTimes, expireSets, closed, timerExited, last, pc, loc, sw,
                   call, abs, mu>>

L_Set(k) ==
    LruDone(Set(S, k, "v1", 0, now).s, Called("Set", k, TRUE))

L_Get(k) ==
    LET r == Get(S, k, now)
    IN LruDone(r.s, Called("Get", k, ~r.ret.isNil))

L_Update(k) ==
    LET r == Update(S, k, "v2", now)
    IN LruDone(r.s, Called("Update", k, r.exist))

LruNext ==
    \/ \E k \in LruKeys : L_Set(k)
    \/ \E k \in LruKeys : L_Get(k)
    \/ \E k \in LruKeys : L_Update(k)
    \/ SweeperRun

LruSpec == LruInit /\ [][LruNext]_vars


\* ------------------------------------------- one caller and the sweeper
\* TickSpec and RenewSpec: one caller makes one call after the other while
\* the timer runs the sweeper; a step is one critical section, as in
\* ConcSpec, so a sweeper run can start, drain and scan between the data
\* write of a call and the push of its event.  The cache has no LRU.  last
\* is the call that has returned last; abs is the map the returned Set and
\* Remove calls describe (Nil for a key they leave without a value).

Caller == "t1"

\* A call starts if its event fits on top of the pending ones.
TickRoom == Len(eventList) <= MaxEvents

CallerFrame ==
    UNCHANGED <<now, expireTimes, expireSets, lru, closed, timerExited, sw, call, hist, mu>>

\* Set, line 70-74: getInternalExpire and c.data.Set.
K_SetData(k, v, d) ==
    /\ pc[Caller] = "idle" /\ TickRoom
    /\ LET expireTime == getInternalExpire(d, now)
       IN /\ data' = memoryData_Set(data, k, Item(v, expireTime))
          /\ loc' = [loc EXCEPT ![Caller] = [k |-> k, v |-> v, d |-> d, e |-> expireTime]]
    /\ pc' = [pc EXCEPT ![Caller] = "Set_push"]
    /\ UNCHANGED <<eventList, last, abs>>
    /\ CallerFrame

\* Set, line 75-79: c.eventList.PushBack, then the return.
K_SetPush ==
    /\ pc[Caller] = "Set_push"
    /\ LET l == loc[Caller]
       IN /\ eventList' = Append(eventList, adapterMemoryEvent(l.k, l.e))
          /\ last' = Returned("Set", l.k, l.v, l.d, l.e, NilVar, TRUE, 0)
          /\ abs' = [abs EXCEPT ![l.k] = l.v]
    /\ pc' = [pc EXCEPT ![Caller] = "idle"]
    /\ loc' = [loc EXCEPT ![Caller] = NoLocals]
    /\ UNCHANGED data
    /\ CallerFrame

\* doRemove, line 279-282: c.data.Remove; with no key removed the loop at
\* line 283 has nothing to push and the call returns.
K_RemoveData(k) ==
    /\ pc[Caller] = "idle" /\ TickRoom
    /\ LET r == memoryData_Remove(data, <<k>>)
       IN /\ data' = r.data
          /\ IF r.removedKeys # <<>>
             THEN /\ pc' = [pc EXCEPT ![Caller] = "Remove_push"]
                  /\ loc' = [loc EXCEPT ![Caller] = [k |-> k, v |-> r.value, d |-> 0,
                                                    e |-> 0]]
                  /\ UNCHANGED <<last, abs>>
             ELSE /\ last' = Returned("Remove", k, Nil, 0, 0, gvarNew(r.value), TRUE, 0)
                  /\ abs' = [abs EXCEPT ![k] = Nil]
                  /\ UNCHANGED <<pc, loc>>
    /\ UNCHANGED eventList
    /\ CallerFrame

\* doRemove, line 283-289: the PushBack for the removed key with the clock
\* read at the push, then the return.
K_RemovePush ==
    /\ pc[Caller] = "Remove_push"
    /\ LET l == loc[Caller]
       IN /\ eventList' = Append(eventList, adapterMemoryEvent(l.k, now - MsPerSecond))
          /\ last' = Returned("Remove", l.k, Nil, 0, 0, gvarNew(l.v), TRUE, 0)
          /\ abs' = [abs EXCEPT ![l.k] = Nil]
    /\ pc' = [pc EXCEPT ![Caller] = "idle"]
    /\ loc' = [loc EXCEPT ![Caller] = NoLocals]
    /\ UNCHANGED data
    /\ CallerFrame

\* UpdateExpire, line 310-315: c.data.UpdateExpire; -1 ends the call.  The
\* local v keeps the value of the entry if it was live at the update.
K_UpdateExpireData(k, d) ==
    /\ pc[Caller] = "idle" /\ TickRoom
    /\ LET newExpireTime == getInternalExpire(d, now)
           r == memoryData_UpdateExpire(data, k, newExpireTime, now)
       IN /\ data' = r.data
          /\ IF r.oldDuration # -1
             THEN /\ pc' = [pc EXCEPT ![Caller] = "UpdateExpire_push"]
                  /\ loc' = [loc EXCEPT ![Caller] =
                                [k |-> k,
                                 v |-> IF IsExpired(data[k], now) THEN Nil ELSE data[k].v,
                                 d |-> d, e |-> newExpireTime]]
                  /\ UNCHANGED last
             ELSE /\ last' = Returned("UpdateExpire", k, Nil, d, newExpireTime, NilVar,
                                      FALSE, r.oldDuration)
                  /\ UNCHANGED <<pc, loc>>
    /\ UNCHANGED <<eventList, abs>>
    /\ CallerFrame

\* UpdateExpire, line 316-320: c.eventList.PushBack, then the return.
K_UpdateExpirePush ==
    /\ pc[Caller] = "UpdateExpire_push"
    /\ LET l == loc[Caller]
       IN /\ eventList' = Append(eventList, adapterMemoryEvent(l.k, l.e))
          /\ last' = Returned("UpdateExpire", l.k, l.v, l.d, l.e, NilVar, TRUE, 0)
    /\ pc' = [pc EXCEPT ![Caller] = "idle"]
    /\ loc' = [loc EXCEPT ![Caller] = NoLocals]
    /\ UNCHANGED <<data, abs>>
    /\ CallerFrame

\* TickSpec: Set(k, v, 0) and Remove(k) on both keys.
TickNext ==
    \/ \E k \in AllKeys, v \in Vals : K_SetData(k, v, 0)
    \/ K_SetPush
    \/ \E k \in AllKeys : K_RemoveData(k)
    \/ K_RemovePush
    \/ SweeperStart
    \/ SweeperDrain
    \/ SweeperScan
    \/ SweeperDeleteKey
    \/ SweeperDeleteSet
    \/ Advance

TickSpec == Init /\ [][TickNext]_vars

\* RenewSpec: Set(k, v, d1) and UpdateExpire(k, d2) on one key with
\* d1 = half a second and d2 = one second, so every entry was written by a
\* Set with d1 and every UpdateExpire passes a longer duration.
RenewKey == "k1"
SetDuration == ClockStep * NanosPerMilli
RenewDuration == MsPerSecond * NanosPerMilli

RenewNext ==
    \/ \E v \in Vals : K_SetData(RenewKey, v, SetDuration)
    \/ K_SetPush
    \/ K_UpdateExpireData(RenewKey, RenewDuration)
    \/ K_UpdateExpirePush
    \/ SweeperStart
    \/ SweeperDrain
    \/ SweeperScan
    \/ SweeperDeleteKey
    \/ SweeperDeleteSet
    \/ Advance

RenewSpec == Init /\ [][RenewNext]_vars

\* Close, line 355: c.closed.Set(true).
K_Close ==
    /\ pc[Caller] = "idle" /\ ~closed
    /\ closed' = TRUE
    /\ last' = Returned("Close", "k1", Nil, 0, 0, NilVar, TRUE, 0)
    /\ UNCHANGED <<now, data, eventList, expireTimes, expireSets, lru, timerExited,
                   pc, loc, sw, call, abs, hist, mu>>

\* CloseSpec: Set on one key, never expiring or for half a second, and
\* Close, by one caller while the timer runs the sweeper.  The calls go on
\* after Close; Close can fall into a sweeper run in progress.
CloseNext ==
    \/ \E d \in {0, SetDuration} : K_SetData(RenewKey, "v1", d)
    \/ K_SetPush
    \/ K_Close
    \/ SweeperStart
    \/ SweeperDrain
    \/ SweeperScan
    \/ SweeperDeleteKey
    \/ SweeperDeleteSet
    \/ Advance

CloseSpec == Init /\ [][CloseNext]_vars

\* Clear, line 348-349: c.data.Clear and c.lru.Clear; the event list,
\* expireTimes and expireSets are not touched.  hist starts again with the
\* Clear, and abs is the empty map of a new cache.
K_Clear ==
    /\ pc[Caller] = "idle"
    /\ data' = memoryData_Clear(data)
    /\ lru' = memoryLru_Clear(lru)
    /\ hist' = <<Called("Clear", RenewKey, TRUE)>>
    /\ abs' = [k \in AllKeys |-> Nil]
    /\ last' = Returned("Clear", RenewKey, Nil, 0, 0, NilVar, TRUE, 0)
    /\ UNCHANGED <<now, eventList, expireTimes, expireSets, closed, timerExited,
                   pc, loc, sw, call, mu>>

Cleared == hist # <<>>

\* ClearSpec: one caller and the sweeper.  Before the first Clear the
\* caller sets one key for half a second; after a Clear it sets the key
\* with no expiry, which on a cache made by New() leaves the key in the
\* data map whatever the sweeper does.
ClearNext ==
    \/ ~Cleared /\ K_SetData(RenewKey, "v1", SetDuration)
    \/ Cleared /\ K_SetData(RenewKey, "v2", 0)
    \/ K_SetPush
    \/ K_Clear
    \/ SweeperStart
    \/ SweeperDrain
    \/ SweeperScan
    \/ SweeperDeleteKey
    \/ SweeperDeleteSet
    \/ Advance

ClearSpec == Init /\ [][ClearNext]_vars


\* ------------------------------------------- concurrent calls with LRU
\* LruConcSpec: two tasks call Set, Get, Remove and Clear on a cache made
\* by New(1) while the sweeper runs.  A step is one critical section:
\* memoryData.mu, the event list's lock and memoryLru.mu are taken one
\* after the other, never together, so the data map and the LRU list of
\* one call change in different steps.  No entry expires.

ConcCap == Cardinality(AllKeys) - 1

LruConcInit ==
    /\ pc = [t \in Tasks |-> "idle"]
    /\ loc = [t \in Tasks |-> NoLocals]
    /\ sw = SweeperIdle
    /\ now = StartMs
    /\ data = [k \in AllKeys |-> NoItem]
    /\ eventList = <<>>
    /\ expireTimes = [k \in AllKeys |-> 0]
    /\ expireSets = [b \in {} |-> {}]
    /\ lru = New(<<ConcCap>>)
    /\ closed = FALSE
    /\ timerExited = FALSE
    /\ last = NoCall
    /\ call = [t \in Tasks |-> NoRace]
    /\ abs = [k \in AllKeys |-> Nil]
    /\ hist = <<>>
    /\ mu = NoLocks

LruTaskFrame ==
    UNCHANGED <<now, expireTimes, expireSets, closed, timerExited, last, sw, call, abs, hist, mu>>

Goto(t, label) == pc' = [pc EXCEPT ![t] = label]
Return(t) == pc' = [pc EXCEPT ![t] = "idle"] /\ loc' = [loc EXCEPT ![t] = NoLocals]

\* Set, line 70-74: getInternalExpire and c.data.Set.
Q_SetData(t, k, v) ==
    /\ pc[t] = "idle" /\ ConcRoom
    /\ LET expireTime == getInternalExpire(0, now)
       IN /\ data' = memoryData_Set(data, k, Item(v, expireTime))
          /\ loc' = [loc EXCEPT ![t] = [k |-> k, v |-> v, d |-> 0, e |-> expireTime]]
    /\ Goto(t, "Set_push")
    /\ UNCHANGED <<eventList, lru>>
    /\ LruTaskFrame

\* Set, line 75-78: c.eventList.PushBack; the deferred handleLruKey is next.
Q_SetPush(t) ==
    /\ pc[t] = "Set_push"
    /\ eventList' = Append(eventList, adapterMemoryEvent(loc[t].k, loc[t].e))
    /\ Goto(t, "lru_save")
    /\ UNCHANGED <<data, lru, loc>>
    /\ LruTaskFrame

\* Get, line 180-181: c.data.Get and IsExpired; a live item goes on to
\* handleLruKey, anything else returns.
Q_Get(t, k) ==
    /\ pc[t] = "idle"
    /\ LET item == memoryData_Get(data, k)
       IN IF item.has /\ ~IsExpired(item, now)
          THEN /\ Goto(t, "lru_save")
               /\ loc' = [loc EXCEPT ![t] = [k |-> k, v |-> item.v, d |-> 0, e |-> 0]]
          ELSE UNCHANGED <<pc, loc>>
    /\ UNCHANGED <<data, eventList, lru>>
    /\ LruTaskFrame

\* handleLruKey, line 451: c.lru.SaveAndEvict inside memoryLru.mu; evicted
\* keys go on to doRemove.
Q_LruSave(t) ==
    /\ pc[t] = "lru_save"
    /\ LET r == SaveAndEvict(lru, <<loc[t].k>>)
       IN /\ lru' = r.lru
          /\ IF Len(r.evictedKeys) > 0
             THEN /\ Goto(t, "evict_data")
                  /\ loc' = [loc EXCEPT ![t].k = r.evictedKeys[1]]
             ELSE Return(t)
    /\ UNCHANGED <<data, eventList>>
    /\ LruTaskFrame

\* handleLruKey, line 452 and doRemove, line 279: c.data.Remove of the
\* evicted key.
Q_EvictData(t) ==
    /\ pc[t] = "evict_data"
    /\ LET r == memoryData_Remove(data, <<loc[t].k>>)
       IN /\ data' = r.data
          /\ IF r.removedKeys # <<>>
             THEN Goto(t, "evict_push") /\ UNCHANGED loc
             ELSE Return(t)
    /\ UNCHANGED <<eventList, lru>>
    /\ LruTaskFrame

\* doRemove, line 283-288: the PushBack for the evicted key.
Q_EvictPush(t) ==
    /\ pc[t] = "evict_push"
    /\ eventList' = Append(eventList, adapterMemoryEvent(loc[t].k, now - MsPerSecond))
    /\ Return(t)
    /\ UNCHANGED <<data, lru>>
    /\ LruTaskFrame

\* Remove, line 274 and doRemove, line 279: c.data.Remove.
Q_RemoveData(t, k) ==
    /\ pc[t] = "idle" /\ ConcRoom
    /\ LET r == memoryData_Remove(data, <<k>>)
       IN /\ data' = r.data
          /\ loc' = [loc EXCEPT ![t] = [k |-> k, v |-> r.value, d |-> 0, e |-> 0]]
          /\ IF r.removedKeys # <<>>
             THEN Goto(t, "Remove_push")
             ELSE Goto(t, "Remove_lru")
    /\ UNCHANGED <<eventList, lru>>
    /\ LruTaskFrame

\* doRemove, line 283-288: the PushBack for the removed key.
Q_RemovePush(t) ==
    /\ pc[t] = "Remove_push"
    /\ eventList' = Append(eventList, adapterMemoryEvent(loc[t].k, now - MsPerSecond))
    /\ Goto(t, "Remove_lru")
    /\ UNCHANGED <<data, lru, loc>>
    /\ LruTaskFrame

\* Remove, line 273: the deferred c.lru.Remove.
Q_RemoveLru(t) ==
    /\ pc[t] = "Remove_lru"
    /\ lru' = memoryLru_Remove(lru, <<loc[t].k>>)
    /\ Return(t)
    /\ UNCHANGED <<data, eventList>>
    /\ LruTaskFrame

\* Clear, line 348: c.data.Clear.
Q_ClearData(t) ==
    /\ pc[t] = "idle"
    /\ data' = memoryData_Clear(data)
    /\ Goto(t, "Clear_lru")
    /\ UNCHANGED <<eventList, lru, loc>>
    /\ LruTaskFrame

\* Clear, line 349: c.lru.Clear.
Q_ClearLru(t) ==
    /\ pc[t] = "Clear_lru"
    /\ lru' = memoryLru_Clear(lru)
    /\ Return(t)
    /\ UNCHANGED <<data, eventList>>
    /\ LruTaskFrame

\* syncEventAndClearExpired, line 436: deleteExpiredKey for one key of the
\* copy; c.lru.Remove is next.
Q_SweeperDeleteKey ==
    /\ sw.pc = "keys"
    /\ \E key \in sw.keys :
          LET w == deleteExpiredKey([data |-> data, expireTimes |-> expireTimes], key)
          IN /\ data' = w.data
             /\ expireTimes' = w.expireTimes
             /\ sw' = [pc |-> "lru", i |-> sw.i, currentEk |-> sw.currentEk,
                       keys |-> sw.keys \ {key}, key |-> key]
    /\ UNCHANGED <<eventList, expireSets, lru, timerExited>>
    /\ SweeperFrame

\* syncEventAndClearExpired, line 438: c.lru.Remove(key).
Q_SweeperLruRemove ==
    /\ sw.pc = "lru"
    /\ lru' = memoryLru_Remove(lru, <<sw.key>>)
    /\ sw' = [pc |-> "keys", i |-> sw.i, currentEk |-> sw.currentEk, keys |-> sw.keys]
    /\ UNCHANGED <<data, eventList, expireTimes, expireSets, timerExited>>
    /\ SweeperFrame

LruConcNext ==
    \/ \E t \in Tasks, k \in AllKeys : Q_SetData(t, k, "v1")
    \/ \E t \in Tasks : Q_SetPush(t)
    \/ \E t \in Tasks, k \in AllKeys : Q_Get(t, k)
    \/ \E t \in Tasks : Q_LruSave(t)
    \/ \E t \in Tasks : Q_EvictData(t)
    \/ \E t \in Tasks : Q_EvictPush(t)
    \/ \E t \in Tasks, k \in AllKeys : Q_RemoveData(t, k)
    \/ \E t \in Tasks : Q_RemovePush(t)
    \/ \E t \in Tasks : Q_RemoveLru(t)
    \/ \E t \in Tasks : Q_ClearData(t)
    \/ \E t \in Tasks : Q_ClearLru(t)
    \/ SweeperStart
    \/ SweeperDrain
    \/ SweeperScan
    \/ Q_SweeperDeleteKey
    \/ Q_SweeperLruRemove
    \/ SweeperDeleteSet

LruConcSpec == LruConcInit /\ [][LruConcNext]_vars


\* ------------------------------------------------------------- the locks
\* LockSpec: two tasks call SetIfNotExistFuncLock and SetIfNotExistFunc on
\* a cache made by New(1) while the sweeper runs.  Taking
\* memoryData.mu or memoryLru.mu is a step of its own that waits for the
\* mutex; the statements inside the mutex and its release are the next
\* step, and a producer that runs inside memoryData.mu has a step of its
\* own.  The mutexes of the event list, of expireTimes, of expireSets and
\* of a set are taken and released inside one library call that takes no
\* other mutex, so such a call is part of the step that makes it.  A
\* producer does not call the cache, and it returns.

Sweeper == "sweeper"

Free(m) == mu[m] = {}
Shared(m) == \A x \in mu[m] : x[2] = "R"
Lock(m, h) == mu' = [mu EXCEPT ![m] = @ \cup {<<h, "W">>}]
RLock(m, h) == mu' = [mu EXCEPT ![m] = @ \cup {<<h, "R">>}]
Unlock(m, h) == mu' = [mu EXCEPT ![m] = {x \in @ : x[1] # h}]

\* The producer returns a value; each task has a key of its own, so a key
\* that is saved in the LRU of capacity 1 evicts the key of the other task.
Producer == Func("v1", FALSE)
KeyOf(t) == IF t = "t1" THEN "k1" ELSE "k2"
LockOps == {"SetIfNotExistFuncLock", "SetIfNotExistFunc"}

LockFrame ==
    UNCHANGED <<now, expireTimes, expireSets, closed, timerExited, last, sw, call, abs, hist>>

\* A call starts if the pending events and the calls in progress are fewer
\* than the tasks.
LockRoom == Len(eventList) + InFlight < Cardinality(Tasks)

\* SetIfNotExistFunc, line 136-137 and SetIfNotExistFuncLock, line 162-163:
\* the call reaches Contains, which reads the key with Get.
X_Call(t, op, k, f) ==
    /\ pc[t] = "idle" /\ LockRoom
    /\ Goto(t, "Get_RLock")
    /\ loc' = [loc EXCEPT ![t] = [k |-> k, v |-> Nil, d |-> 0,
                                  e |-> getInternalExpire(0, now), op |-> op, f |-> f]]
    /\ UNCHANGED <<data, eventList, lru, mu>>
    /\ LockFrame

\* memoryData.Get, line 149: d.mu.RLock.
X_GetRLock(t) ==
    /\ pc[t] = "Get_RLock"
    /\ Shared("data")
    /\ RLock("data", t)
    /\ Goto(t, "Get_read")
    /\ UNCHANGED <<data, eventList, lru, loc>>
    /\ LockFrame

\* memoryData.Get, line 150-151 and Get, line 180-181: the read, RUnlock and
\* IsExpired.  A key that is found ends the call with the deferred
\* handleLruKey; else SetIfNotExistFunc runs f and SetIfNotExistFuncLock
\* goes to SetWithLock.
X_GetRead(t) ==
    /\ pc[t] = "Get_read"
    /\ Unlock("data", t)
    /\ LET item == memoryData_Get(data, loc[t].k)
       IN IF item.has /\ ~IsExpired(item, now)
          THEN Goto(t, "Lru_Lock")
          ELSE IF loc[t].op = "SetIfNotExistFunc"
          THEN Goto(t, "f")
          ELSE Goto(t, "Swl_Lock")
    /\ UNCHANGED <<data, eventList, lru, loc>>
    /\ LockFrame

\* SetIfNotExistFunc, line 142-145: f returns; an error ends the call,
\* else the value goes to doSetWithLockCheck.
X_Produce(t) ==
    /\ pc[t] = "f"
    /\ IF loc[t].f.err
       THEN Goto(t, "Lru_Lock") /\ UNCHANGED loc
       ELSE /\ Goto(t, "Swl_Lock")
            /\ loc' = [loc EXCEPT ![t].f = Plain(loc[t].f.res)]
    /\ UNCHANGED <<data, eventList, lru, mu>>
    /\ LockFrame

\* Mutant of X_SwlLock: SetWithLock does not take d.mu.
X_SwlLock_NoMutex(t) ==
    /\ pc[t] = "Swl_Lock"
    /\ Goto(t, "Swl_check")
    /\ UNCHANGED <<data, eventList, lru, loc, mu>>
    /\ LockFrame

\* memoryData.SetWithLock, line 178: d.mu.Lock.
X_SwlLock(t) ==
    /\ pc[t] = "Swl_Lock"
    /\ Free("data")
    /\ Lock("data", t)
    /\ Goto(t, "Swl_check")
    /\ UNCHANGED <<data, eventList, lru, loc>>
    /\ LockFrame

\* memoryData.SetWithLock, line 183-190: a live item is returned; a value
\* that is no function is stored (line 199); the deferred Unlock runs at
\* both returns.  A function is called next, inside the mutex.
X_SwlCheck(t) ==
    /\ pc[t] = "Swl_check"
    /\ LET l == loc[t]
           r == memoryData_SetWithLock(data, l.k, l.f, l.e, now)
       IN IF r.called
          THEN /\ Goto(t, "f_locked")
               /\ UNCHANGED <<data, mu>>
          ELSE /\ data' = r.data
               /\ Unlock("data", t)
               /\ Goto(t, "Push")
    /\ UNCHANGED <<eventList, lru, loc>>
    /\ LockFrame

\* Mutant of X_SwlProduce: the producer calls Get on the cache.
X_SwlProduce_CallsBack(t) ==
    /\ pc[t] = "f_locked"
    /\ Goto(t, "Get_RLock")
    /\ UNCHANGED <<data, eventList, lru, loc, mu>>
    /\ LockFrame

\* memoryData.SetWithLock, line 191-200: f returns inside the mutex; its
\* value is stored unless it is an error or nil; the deferred Unlock.
X_SwlProduce(t) ==
    /\ pc[t] = "f_locked"
    /\ LET l == loc[t]
           r == memoryData_SetWithLock(data, l.k, l.f, l.e, now)
       IN data' = r.data
    /\ Unlock("data", t)
    /\ Goto(t, "Push")
    /\ UNCHANGED <<eventList, lru, loc>>
    /\ LockFrame

\* doSetWithLockCheck, line 369: c.eventList.PushBack; the deferred
\* handleLruKey is next.
X_Push(t) ==
    /\ pc[t] = "Push"
    /\ eventList' = Append(eventList, adapterMemoryEvent(loc[t].k, loc[t].e))
    /\ Goto(t, "Lru_Lock")
    /\ UNCHANGED <<data, lru, loc, mu>>
    /\ LockFrame

\* memoryLru.SaveAndEvict, line 47: l.mu.Lock.
X_LruLock(t) ==
    /\ pc[t] = "Lru_Lock"
    /\ Free("lru")
    /\ Lock("lru", t)
    /\ Goto(t, "Lru_save")
    /\ UNCHANGED <<data, eventList, lru, loc>>
    /\ LockFrame

\* memoryLru.SaveAndEvict, line 48-55 and handleLruKey, line 451-452: the
\* key is saved, the mutex released; an evicted key goes to doRemove.
X_LruSave(t) ==
    /\ pc[t] = "Lru_save"
    /\ Unlock("lru", t)
    /\ LET r == SaveAndEvict(lru, <<loc[t].k>>)
       IN /\ lru' = r.lru
          /\ IF Len(r.evictedKeys) > 0
             THEN /\ Goto(t, "doRemove_Lock")
                  /\ loc' = [loc EXCEPT ![t].k = r.evictedKeys[1]]
             ELSE Return(t)
    /\ UNCHANGED <<data, eventList>>
    /\ LockFrame

\* memoryData.Remove, line 65: d.mu.Lock.
X_RemoveLock(t) ==
    /\ pc[t] = "doRemove_Lock"
    /\ Free("data")
    /\ Lock("data", t)
    /\ Goto(t, "doRemove_data")
    /\ UNCHANGED <<data, eventList, lru, loc>>
    /\ LockFrame

\* memoryData.Remove, line 66-76 and doRemove, line 279-282: the keys are
\* removed and the mutex released.
X_RemoveData(t) ==
    /\ pc[t] = "doRemove_data"
    /\ Unlock("data", t)
    /\ LET r == memoryData_Remove(data, <<loc[t].k>>)
       IN /\ data' = r.data
          /\ IF r.removedKeys # <<>>
             THEN Goto(t, "doRemove_push") /\ UNCHANGED loc
             ELSE Return(t)
    /\ UNCHANGED <<eventList, lru>>
    /\ LockFrame

\* doRemove, line 283-288: the PushBack for the removed key; handleLruKey
\* returns.
X_RemovePush(t) ==
    /\ pc[t] = "doRemove_push"
    /\ eventList' = Append(eventList, adapterMemoryEvent(loc[t].k, now - MsPerSecond))
    /\ Return(t)
    /\ UNCHANGED <<data, lru, mu>>
    /\ LockFrame

LockSweeperFrame ==
    UNCHANGED <<now, eventList, expireSets, closed, timerExited, last, pc, loc,
                call, abs, hist>>

\* deleteExpiredKey, line 462 and memoryData.Delete, line 204: d.mu.Lock
\* for one key of the copy that Iterator took.
Y_DeleteLock ==
    /\ sw.pc = "keys"
    /\ Free("data")
    /\ Lock("data", Sweeper)
    /\ \E key \in sw.keys :
          sw' = [pc |-> "delete", i |-> sw.i, currentEk |-> sw.currentEk,
                 keys |-> sw.keys \ {key}, key |-> key]
    /\ UNCHANGED <<data, expireTimes, lru>>
    /\ LockSweeperFrame

\* memoryData.Delete, line 205-206 and deleteExpiredKey, line 464: the key
\* is deleted, the mutex released, and the key leaves expireTimes.
Y_Delete ==
    /\ sw.pc = "delete"
    /\ Unlock("data", Sweeper)
    /\ LET w == deleteExpiredKey([data |-> data, expireTimes |-> expireTimes], sw.key)
       IN /\ data' = w.data
          /\ expireTimes' = w.expireTimes
    /\ sw' = [sw EXCEPT !.pc = "lru_Lock"]
    /\ UNCHANGED lru
    /\ LockSweeperFrame

\* syncEventAndClearExpired, line 438 and memoryLru.Remove, line 33:
\* l.mu.Lock.
Y_LruLock ==
    /\ sw.pc = "lru_Lock"
    /\ Free("lru")
    /\ Lock("lru", Sweeper)
    /\ sw' = [sw EXCEPT !.pc = "lru_remove"]
    /\ UNCHANGED <<data, expireTimes, lru>>
    /\ LockSweeperFrame

\* memoryLru.Remove, line 34-39: the key leaves the list; the deferred
\* Unlock; Iterator goes to the next key.
Y_LruRemove ==
    /\ sw.pc = "lru_remove"
    /\ Unlock("lru", Sweeper)
    /\ lru' = memoryLru_Remove(lru, <<sw.key>>)
    /\ sw' = [pc |-> "keys", i |-> sw.i, currentEk |-> sw.currentEk, keys |-> sw.keys]
    /\ UNCHANGED <<data, expireTimes>>
    /\ LockSweeperFrame

\* The steps of a call in progress.
TaskStep(t) ==
    \/ X_GetRLock(t)
    \/ X_GetRead(t)
    \/ X_Produce(t)
    \/ X_SwlLock(t)
    \/ X_SwlCheck(t)
    \/ X_SwlProduce(t)
    \/ X_Push(t)
    \/ X_LruLock(t)
    \/ X_LruSave(t)
    \/ X_RemoveLock(t)
    \/ X_RemoveData(t)
    \/ X_RemovePush(t)

\* The steps of a sweeper run in progress.
SweeperStep ==
    \/ SweeperDrain
    \/ SweeperScan
    \/ Y_DeleteLock
    \/ Y_Delete
    \/ Y_LruLock
    \/ Y_LruRemove
    \/ SweeperDeleteSet

LockNext ==
    \/ \E t \in Tasks, op \in LockOps : X_Call(t, op, KeyOf(t), Producer)
    \/ \E t \in Tasks : TaskStep(t)
    \/ SweeperStart
    \/ SweeperStep

LockSpec == LruConcInit /\ [][LockNext]_vars

\* LockFairSpec: t1 calls SetIfNotExistFuncLock and t2 SetIfNotExistFunc,
\* without end if they like.  sync.Mutex hands a mutex to a goroutine that
\* has waited for it (a waiter of more than a millisecond gets it next),
\* and a writer that waits for a sync.RWMutex keeps new readers out; so a
\* step of a call or of a sweeper run that is enabled again and again is
\* taken.  No call has to start.
OpOf(t) == IF t = "t1" THEN "SetIfNotExistFuncLock" ELSE "SetIfNotExistFunc"

LockFairNext ==
    \/ \E t \in Tasks : X_Call(t, OpOf(t), KeyOf(t), Producer)
    \/ \E t \in Tasks : TaskStep(t)
    \/ SweeperStart
    \/ SweeperStep

LockFairSpec ==
    /\ LruConcInit /\ [][LockFairNext]_vars
    /\ \A t \in Tasks : SF_vars(TaskStep(t))
    /\ SF_vars(SweeperStep)


\* ------------------------------------------------------------- SetMap
\* MapSpec: on a cache made by New(), t1 calls SetMap with both keys, one
\* value and one duration (none, or half a second), t2 calls Data(), and
\* the sweeper runs, with memoryData.mu taken as in LockSpec.  The loop of
\* memoryData.SetMap writes one key per step inside the mutex, in the
\* order the Go map gives; the pushes of AdapterMemory.SetMap follow, one
\* per key.  last keeps the map that Data() returned.

Writer == "t1"
Reader == "t2"

MapFrame ==
    UNCHANGED <<now, expireTimes, expireSets, lru, closed, timerExited, sw, call, abs, hist>>

\* SetMap, line 88 and memoryData.SetMap, line 166: getInternalExpire, then
\* d.mu.Lock.  The call starts with no event pending.
W_SetMapLock(v, d) ==
    /\ pc[Writer] = "idle" /\ Len(eventList) < MaxEvents
    /\ Free("data")
    /\ Lock("data", Writer)
    /\ Goto(Writer, "SetMap_write")
    /\ loc' = [loc EXCEPT ![Writer] = [k |-> "k1", v |-> v, d |-> d,
                                       e |-> getInternalExpire(d, now), keys |-> AllKeys]]
    /\ UNCHANGED <<data, eventList, last>>
    /\ MapFrame

\* memoryData.SetMap, line 167-173: one pass of the loop; d.mu.Unlock after
\* the last key.
W_SetMapWrite ==
    /\ pc[Writer] = "SetMap_write"
    /\ \E k \in loc[Writer].keys :
          /\ data' = memoryData_Set(data, k, Item(loc[Writer].v, loc[Writer].e))
          /\ IF loc[Writer].keys = {k}
             THEN /\ Unlock("data", Writer)
                  /\ Goto(Writer, "SetMap_push")
                  /\ loc' = [loc EXCEPT ![Writer].keys = AllKeys]
             ELSE /\ loc' = [loc EXCEPT ![Writer].keys = @ \ {k}]
                  /\ UNCHANGED <<pc, mu>>
    /\ UNCHANGED <<eventList, last>>
    /\ MapFrame

\* SetMap, line 94-99: one PushBack of the loop; with c.lru == nil the call
\* returns after the last.
W_SetMapPush ==
    /\ pc[Writer] = "SetMap_push"
    /\ \E k \in loc[Writer].keys :
          /\ eventList' = Append(eventList, adapterMemoryEvent(k, loc[Writer].e))
          /\ IF loc[Writer].keys = {k}
             THEN Return(Writer)
             ELSE /\ loc' = [loc EXCEPT ![Writer].keys = @ \ {k}]
                  /\ UNCHANGED pc
    /\ UNCHANGED <<data, last, mu>>
    /\ MapFrame

\* memoryData.Data, line 81: d.mu.RLock.
D_DataRLock ==
    /\ pc[Reader] = "idle"
    /\ Shared("data")
    /\ RLock("data", Reader)
    /\ Goto(Reader, "Data_read")
    /\ UNCHANGED <<data, eventList, last, loc>>
    /\ MapFrame

\* memoryData.Data, line 83-92: the copy of the items with e > nowMilli and
\* the deferred RUnlock.
D_DataRead ==
    /\ pc[Reader] = "Data_read"
    /\ Unlock("data", Reader)
    /\ last' = Returned("Data", "k1", Nil, 0, 0, gvarNew(memoryData_Data(data, now)), TRUE, 0)
    /\ Goto(Reader, "idle")
    /\ UNCHANGED <<data, eventList, loc>>
    /\ MapFrame

\* deleteExpiredKey, line 460-465 and syncEventAndClearExpired, line 438:
\* the key is deleted, the mutex released, the key leaves expireTimes, and
\* c.lru.Remove returns at once for a nil *memoryLru.
Y_DeleteNoLru ==
    /\ sw.pc = "delete"
    /\ Unlock("data", Sweeper)
    /\ LET w == deleteExpiredKey([data |-> data, expireTimes |-> expireTimes], sw.key)
       IN /\ data' = w.data
          /\ expireTimes' = w.expireTimes
    /\ sw' = [pc |-> "keys", i |-> sw.i, currentEk |-> sw.currentEk, keys |-> sw.keys]
    /\ UNCHANGED lru
    /\ LockSweeperFrame

MapNext ==
    \/ \E v \in Vals, d \in {0, SetDuration} : W_SetMapLock(v, d)
    \/ W_SetMapWrite
    \/ W_SetMapPush
    \/ D_DataRLock
    \/ D_DataRead
    \/ SweeperStart
    \/ SweeperDrain
    \/ SweeperScan
    \/ Y_DeleteLock
    \/ Y_DeleteNoLru
    \/ SweeperDeleteSet
    \/ Advance

MapSpec == Init /\ [][MapNext]_vars

\* ------------------------------------------------------ expiry indexes
\* SweepSpec: whole calls and whole sweeper runs on a cache whose LRU
\* holds ConcCap keys, with expire timestamps far in the past among the
\* inputs.

\* A duration that puts the expire timestamp more than SweepWindow seconds
\* back, and one that puts it before the epoch.
PastWindow == -((SweepWindow + 1) * MsPerSecond * NanosPerMilli)
PastEpoch == -((StartMs + 3 * ClockStep) * NanosPerMilli)
SweepDurations == {PastEpoch, PastWindow, 1, SetDuration}

SweepRoom(s) == Len(s.eventList) <= Cardinality(AllKeys)
\* The bounded clock still reaches the second in which the bucket of a
\* future expire timestamp is scanned.
Sweepable(d) ==
    d < 0 \/ makeExpireKey(getInternalExpire(d, now)) < makeExpireKey(MaxNow)

I_Set(k, d) ==
    /\ Sweepable(d)
    /\ SweepRoom(Set(S, k, "v1", d, now).s)
    /\ Commit(Set(S, k, "v1", d, now).s)
    /\ last' = Returned("Set", k, "v1", d, getInternalExpire(d, now), NilVar, TRUE, 0)
    /\ Quiet

I_Remove(k) ==
    LET r == Remove(S, <<k>>, now)
    IN /\ SweepRoom(r.s)
       /\ Commit(r.s)
       /\ last' = Returned("Remove", k, Nil, 0, now - MsPerSecond, r.ret, TRUE, 0)
       /\ Quiet

SweepNext ==
    \/ \E k \in AllKeys, d \in SweepDurations : I_Set(k, d)
    \/ \E k \in AllKeys : I_Remove(k)
    \/ SweeperRun
    \/ Advance

SweepSpec == LruConcInit /\ [][SweepNext]_vars

\* ExpireSpec: whole calls on one key (Set, Remove, and a
\* SetIfNotExistFuncLock whose function returns nil) and the steps of the
\* timer job.
\* gtimer.AddSingleton keeps running the job every second and the clock
\* keeps moving: both are weakly fair.
ExpireDurations == {PastWindow, 1, SetDuration}

\* The timer job, one step at a time.
SweepJob ==
    \/ SweeperStart
    \/ SweeperDrain
    \/ SweeperScan
    \/ SweeperDeleteKey
    \/ SweeperDeleteSet

\* SetIfNotExistFuncLock(k, f, 0) with an f that returns (nil, nil).
NilProducer == Func(Nil, FALSE)

I_SetIfNotExistFuncLock(k) ==
    LET r == SetIfNotExistFuncLock(S, k, NilProducer, 0, now)
    IN /\ SweepRoom(r.s)
       /\ Commit(r.s)
       /\ last' = Returned("SetIfNotExistFuncLock", k, Nil, 0, getInternalExpire(0, now),
                           NilVar, r.ret, 0)
       /\ Quiet

ExpireNext ==
    \/ \E k \in SeqKeys, d \in ExpireDurations : I_Set(k, d)
    \/ \E k \in SeqKeys : I_Remove(k)
    \/ \E k \in SeqKeys : I_SetIfNotExistFuncLock(k)
    \/ SweepJob
    \/ Advance

ExpireSpec ==
    LruConcInit /\ [][ExpireNext]_vars /\ WF_vars(SweepJob) /\ WF_vars(Advance)

\* ------------------------------------------------------ racing producers
\* RaceSpec: each task makes one call of the set-if-absent family on the
\* same key of a cache without LRU; a step is one critical section of
\* memoryData.mu or of the event list, or the run of a producer outside the
\* lock, and the steps of the tasks interleave freely with the clock.

RaceKey == "k1"
\* The value a task passes or its producer returns.
RaceVal == [t \in Tasks |-> IF t = "t1" THEN "v1" ELSE "v2"]
PlainOps == {"SetIfNotExist", "GetOrSet"}
FuncOps == {"SetIfNotExistFunc", "GetOrSetFunc"}
FuncLockOps == {"SetIfNotExistFuncLock", "GetOrSetFuncLock"}
GetOrSetOps == {"GetOrSet", "GetOrSetFunc", "GetOrSetFuncLock"}
RaceOps == PlainOps \cup FuncOps \cup FuncLockOps
\* A plain value, or a producer returning a value, nil, or an error.
RaceArgs(t, op) ==
    IF op \in PlainOps THEN {Plain(RaceVal[t])}
    ELSE {Func(RaceVal[t], FALSE), Func(Nil, FALSE), Func(Nil, TRUE)}
RaceDurations == {0, ClockStep * NanosPerMilli}

RaceFrame ==
    UNCHANGED <<now, expireTimes, expireSets, lru, closed, timerExited, last, loc, sw, abs, hist, mu>>

\* The return of task t's call.
RaceReturn(t, c, var, ok, err) ==
    /\ call' = [call EXCEPT ![t] = [c EXCEPT !.var = var, !.ok = ok, !.err = err,
                                             !.done = TRUE]]
    /\ pc' = [pc EXCEPT ![t] = "done"]

\* c.Contains / c.Get at the head of the call: a key that is found ends it.
R_Check(t, op, f, d) ==
    /\ pc[t] = "idle"
    /\ LET g == Get(S, RaceKey, now)
           c == [NoRace EXCEPT !.op = op, !.f = f, !.d = d]
       IN IF ~g.ret.isNil
          THEN RaceReturn(t, c, IF op \in GetOrSetOps THEN g.ret ELSE NilVar, FALSE, FALSE)
          ELSE /\ call' = [call EXCEPT ![t] = c]
               /\ pc' = [pc EXCEPT ![t] = IF op \in FuncOps THEN "produce" ELSE "lock"]
    /\ UNCHANGED <<data, eventList>>
    /\ RaceFrame

\* value, err := f(ctx) outside the lock (SetIfNotExistFunc, GetOrSetFunc).
R_Produce(t) ==
    /\ pc[t] = "produce"
    /\ LET c == [call[t] EXCEPT !.called = TRUE, !.value = call[t].f.res]
       IN IF c.f.err
          THEN RaceReturn(t, c, NilVar, FALSE, TRUE)
          ELSE IF c.op = "GetOrSetFunc" /\ c.f.res = Nil
          THEN RaceReturn(t, c, NilVar, FALSE, FALSE)
          ELSE /\ call' = [call EXCEPT ![t] = c]
               /\ pc' = [pc EXCEPT ![t] = "lock"]
    /\ UNCHANGED <<data, eventList>>
    /\ RaceFrame

\* doSetWithLockCheck, line 367-368: getInternalExpire and c.data.SetWithLock.
R_Lock(t) ==
    /\ pc[t] = "lock"
    /\ LET c == call[t]
           value == IF c.op \in FuncLockOps THEN c.f
                    ELSE IF c.op \in FuncOps THEN Plain(c.value) ELSE c.f
           expireTimestamp == getInternalExpire(c.d, now)
           r == memoryData_SetWithLock(data, RaceKey, value, expireTimestamp, now)
       IN /\ data' = r.data
          /\ call' = [call EXCEPT ![t] = [c EXCEPT !.e = expireTimestamp, !.v = r.ret,
                                                   !.err = r.err, !.locked = TRUE,
                                                   !.called = c.called \/ r.called]]
    /\ pc' = [pc EXCEPT ![t] = "push"]
    /\ UNCHANGED eventList
    /\ RaceFrame

\* doSetWithLockCheck, line 369-370: the event push, then the call returns.
R_Push(t) ==
    /\ pc[t] = "push"
    /\ eventList' = Append(eventList, adapterMemoryEvent(RaceKey, call[t].e))
    /\ LET c == call[t]
       IN RaceReturn(t, c, IF c.op \in GetOrSetOps THEN gvarNew(c.v) ELSE NilVar,
                     IF c.op \in GetOrSetOps THEN FALSE ELSE ~c.err, c.err)
    /\ UNCHANGED data
    /\ RaceFrame

RaceNext ==
    \/ \E t \in Tasks, op \in RaceOps, d \in RaceDurations :
          \E f \in RaceArgs(t, op) : R_Check(t, op, f, d)
    \/ \E t \in Tasks : R_Produce(t)
    \/ \E t \in Tasks : R_Lock(t)
    \/ \E t \in Tasks : R_Push(t)
    \/ Advance

RaceSpec == Init /\ [][RaceNext]_vars

\* ------------------------------------------------------------ properties

\* C1: an entry whose expire timestamp is in the past reads as absent: Get
\* returns a nil Var and Contains returns false, in every state, also when
\* the sweeper has not removed the entry or has exited after Close.
C1_ExpiredReadsAbsent ==
    \A k \in AllKeys :
        (data[k].has /\ data[k].e < now)
            => /\ Get(S, k, now).ret = NilVar
               /\ Contains(S, k, now).ret = FALSE

\* C1 witness: the cache is closed and the sweeper has exited, an expired
\* entry is still in the data map, and a Get of it has returned nil.
C1_Witness ==
    /\ closed /\ timerExited
    /\ last.op = "Get" /\ last.var = NilVar
    /\ data[last.k].has /\ data[last.k].e < now

\* C2 (as claimed): under every interleaving of writers and the sweeper,
\* whenever the sweeper is at the delete of a key (the key is in the copy
\* of the bucket it iterates), the entry stored for that key at that
\* moment, if any, has an expire timestamp <= now.
C2_SweeperDeletesOnlyExpired ==
    \A k \in AllKeys :
        (sw.pc = "keys" /\ k \in sw.keys /\ data[k].has) => data[k].e <= now

\* C3 (as claimed): an entry whose stored expire timestamp was written
\* with duration 0 is never at the sweeper's delete, whatever other calls
\* on the key have run or lost the write race.
C3_NeverExpiringNotSwept ==
    \A k \in AllKeys :
        (sw.pc = "keys" /\ k \in sw.keys /\ data[k].has)
            => data[k].e # getInternalExpire(0, now)

\* C4 (as claimed): after Set(k, v, 0) with a non-nil v, GetExpire(k)
\* returns 0 at every later clock value.
C4_NeverExpiresReportsZero ==
    (last.op = "Set" /\ last.v # Nil /\ last.d = 0)
        => GetExpire(S, last.k, now).ret = 0

\* C5 (as claimed): right after Set(k, v, d) with non-nil v and d > 0,
\* while the clock has not passed the expiry, Contains(k) is true, Get(k)
\* is v and 0 < GetExpire(k) <= d.
C5_SetThenRead_Strict ==
    (last.op = "Set" /\ last.v # Nil /\ last.d > 0 /\ now <= last.e)
        => /\ Contains(S, last.k, now).ret = TRUE
           /\ Get(S, last.k, now).ret = gvarNew(last.v)
           /\ 0 < GetExpire(S, last.k, now).ret
           /\ GetExpire(S, last.k, now).ret <= last.d

\* C5 (amended): the same with 0 <= GetExpire(k) <= d; GetExpire(k) is 0
\* when the clock equals the expire timestamp.
C5_SetThenRead ==
    (last.op = "Set" /\ last.v # Nil /\ last.d > 0 /\ now <= last.e)
        => /\ Contains(S, last.k, now).ret = TRUE
           /\ Get(S, last.k, now).ret = gvarNew(last.v)
           /\ 0 <= GetExpire(S, last.k, now).ret
           /\ GetExpire(S, last.k, now).ret <= last.d

\* C5 witness: a Set with a duration of half a second has returned, the
\* clock has advanced to the expire timestamp and the sweeper has run.
C5_Witness ==
    /\ last.op = "Set" /\ last.v # Nil /\ last.d > 1
    /\ now = last.e /\ eventList = <<>>
    /\ GetExpire(S, last.k, now).ret = 0

\* C6 (as claimed): after Set(k, nil, d) with d >= 0, Get(k) returns nil
\* and Contains(k) is false.
C6_SetNilRemoves ==
    (last.op = "Set" /\ last.v = Nil /\ last.d >= 0 /\ now <= last.e)
        => /\ Get(S, last.k, now).ret = NilVar
           /\ Contains(S, last.k, now).ret = FALSE

\* C7 (as claimed): after Set(k, v, d) with d < 0 the data map holds no
\* entry for k, as after Remove(k).
C7_NegativeDurationDeletes ==
    (last.op = "Set" /\ last.d < 0)
        => /\ ~data[last.k].has
           /\ data = Remove(S, <<last.k>>, now).s.data

\* C8 (as claimed): GetExpire(k) returns -1 whenever Get(k) returns nil,
\* and never another negative value.
C8_GetExpireAbsent ==
    \A k \in AllKeys :
        /\ Get(S, k, now).ret = NilVar => GetExpire(S, k, now).ret = -1
        /\ GetExpire(S, k, now).ret < 0 => GetExpire(S, k, now).ret = -1

\* C9 (as claimed): on an entry that has expired and is not yet swept,
\* Update returns exist = false, UpdateExpire returns -1, and neither
\* changes the state.
C9_MutatorsSeeExpiredAsAbsent ==
    \A k \in AllKeys :
        (data[k].has /\ data[k].e < now)
            => /\ \A v \in ValsOrNil :
                    /\ Update(S, k, v, now).exist = FALSE
                    /\ Update(S, k, v, now).s = S
               /\ \A d \in Durations :
                    /\ UpdateExpire(S, k, d, now).oldDuration = -1
                    /\ UpdateExpire(S, k, d, now).s = S

RaceOver == \A t \in Tasks : call[t].done
\* No expire timestamp a racer has computed is in the past: the entry
\* stored for the key has not expired at any clock value so far.
NoExpiry == \A t \in Tasks : call[t].locked => call[t].e >= now

\* C11 (as claimed): when all tasks have called SetIfNotExist(k, v_t, d) on
\* the key and it has not expired, exactly one call has returned true and
\* Get(k) is the value of that caller.
C11_ExactlyOneAdded ==
    (RaceOver /\ NoExpiry /\ \A t \in Tasks : call[t].op = "SetIfNotExist")
        => \E t \in Tasks :
              /\ call[t].ok
              /\ Get(S, RaceKey, now).ret = gvarNew(RaceVal[t])
              /\ \A u \in Tasks \ {t} : ~call[u].ok

\* C13: when all tasks have called GetOrSetFuncLock(k, f_t, d) with
\* producers that return a non-nil value and no error, and the key has not
\* expired, exactly one producer has run, no call has failed, and every
\* caller has returned the value stored for k.
C13_ProducerRunsOnce ==
    (/\ RaceOver /\ NoExpiry
     /\ \A t \in Tasks : /\ call[t].op = "GetOrSetFuncLock"
                          /\ call[t].f = Func(RaceVal[t], FALSE))
        => /\ Cardinality({t \in Tasks : call[t].called}) = 1
           /\ data[RaceKey].has
           /\ \A t \in Tasks : /\ ~call[t].err
                                /\ call[t].var = gvarNew(data[RaceKey].v)

\* C13 witness: both tasks found the key absent, both went through
\* SetWithLock with a value producer, and both have returned.
C13_Witness ==
    /\ RaceOver /\ NoExpiry
    /\ \A t \in Tasks : /\ call[t].op = "GetOrSetFuncLock"
                         /\ call[t].f = Func(RaceVal[t], FALSE)
                         /\ call[t].locked

\* C14: while the tasks that have called are callers of GetOrSetFunc or
\* SetIfNotExistFunc with producers of different non-nil values and the key
\* has not expired: the stored value is one a producer returned, every
\* racer that has passed SetWithLock obtained the value that is stored (so
\* none has overwritten another's), and every GetOrSetFunc caller has
\* returned the stored value.
C14_RacersAgree ==
    (/\ NoExpiry
     /\ \A t \in Tasks : call[t].op # "none"
            => call[t].op \in FuncOps /\ call[t].f = Func(RaceVal[t], FALSE))
        => /\ data[RaceKey].has
                => \E t \in Tasks : call[t].called /\ data[RaceKey].v = RaceVal[t]
           /\ \A t \in Tasks : call[t].locked
                => data[RaceKey].has /\ call[t].v = data[RaceKey].v
           /\ \A t \in Tasks : (call[t].done /\ call[t].op = "GetOrSetFunc")
                => call[t].var = gvarNew(data[RaceKey].v)

\* C14 witness: both producers have run, both racers have passed
\* SetWithLock and returned, and a GetOrSetFunc caller has returned the
\* other racer's value.
C14_Witness ==
    /\ RaceOver /\ NoExpiry
    /\ \A t \in Tasks : /\ call[t].op \in FuncOps
                         /\ call[t].f = Func(RaceVal[t], FALSE)
                         /\ call[t].called /\ call[t].locked
    /\ \E t \in Tasks : /\ call[t].op = "GetOrSetFunc"
                         /\ call[t].var # gvarNew(RaceVal[t])

\* C12 (as claimed): SetIfNotExistFunc and SetIfNotExistFuncLock on a key
\* that is not in the data map, with a producer returning (nil, no error),
\* leave the data map without an entry for the key (Contains is false) and
\* return false.
C12_NilProducerIsNoOp ==
    \A k \in AllKeys, d \in CallDurations :
        ~data[k].has
            => LET r1 == SetIfNotExistFunc(S, k, Func(Nil, FALSE), d, now)
                   r2 == SetIfNotExistFuncLock(S, k, Func(Nil, FALSE), d, now)
               IN /\ ~r1.s.data[k].has /\ ~Contains(r1.s, k, now).ret /\ ~r1.ret
                  /\ ~r2.s.data[k].has /\ ~Contains(r2.s, k, now).ret /\ ~r2.ret

\* C15 (as claimed): when the producer of GetOrSetFunc, GetOrSetFuncLock,
\* SetIfNotExistFunc or SetIfNotExistFuncLock is invoked (the key is not
\* readable) and returns an error, the call returns the error and leaves
\* the data map, the event list and the LRU list as they were.
C15_ProducerErrorChangesNothing ==
    \A k \in AllKeys, d \in CallDurations :
        Get(S, k, now).ret = NilVar
            => LET f == Func(Nil, TRUE)
               IN /\ GetOrSetFunc(S, k, f, d, now).err
                  /\ GetOrSetFunc(S, k, f, d, now).s = S
                  /\ GetOrSetFuncLock(S, k, f, d, now).err
                  /\ GetOrSetFuncLock(S, k, f, d, now).s = S
                  /\ SetIfNotExistFunc(S, k, f, d, now).err
                  /\ SetIfNotExistFunc(S, k, f, d, now).s = S
                  /\ SetIfNotExistFuncLock(S, k, f, d, now).err
                  /\ SetIfNotExistFuncLock(S, k, f, d, now).s = S

C18_RemoveListedKeys ==
    \A keys \in RemoveLists :
        LET r == Remove(S, keys, now)
            listed == {keys[i] : i \in 1..Len(keys)}
            present == {k \in listed : data[k].has}
            idx == {i \in 1..Len(keys) : data[keys[i]].has}
            lastIdx == CHOOSE i \in idx : \A j \in idx : j <= i
            pushed == SubSeq(r.s.eventList, Len(eventList) + 1, Len(r.s.eventList))
        IN /\ \A k \in listed : ~r.s.data[k].has /\ ~Contains(r.s, k, now).ret
           /\ \A k \in AllKeys \ listed : r.s.data[k] = data[k]
           /\ r.ret = gvarNew(IF idx = {} THEN Nil ELSE data[keys[lastIdx]].v)
           /\ SubSeq(r.s.eventList, 1, Len(eventList)) = eventList
           /\ Len(pushed) = Cardinality(present)
           /\ {pushed[i] : i \in 1..Len(pushed)}
                 = {adapterMemoryEvent(k, now - MsPerSecond) : k \in present}
           /\ present = {} => r.s.data = data /\ r.s.eventList = eventList

\* C18 witness: a Remove of both keys has removed both: the data map is
\* empty and the event list holds the two events of the removal.
C18_Witness ==
    /\ \A k \in AllKeys : ~data[k].has
    /\ Len(eventList) = 2
    /\ eventList[1].k # eventList[2].k
    /\ \A i \in 1..2 : eventList[i].e = now - MsPerSecond

\* C17 (as claimed): once UpdateExpire(k, d2) has returned for an entry
\* that was written by Set(k, v, d1), d1 < d2, and was live at the
\* update, and no later call has returned, k is readable with the value v
\* at every clock value before the new expire timestamp and not readable
\* after it, wherever the sweeper's steps fall among the steps of the two
\* calls.
C17_RenewedStaysReadable ==
    (pc[Caller] = "idle" /\ last.op = "UpdateExpire" /\ last.ok /\ last.v # Nil)
        => /\ now < last.e => /\ Contains(S, last.k, now).ret
                              /\ Get(S, last.k, now).ret = gvarNew(last.v)
           /\ now > last.e => ~Contains(S, last.k, now).ret

\* C19 (as claimed): on a cache without LRU, whenever the caller of
\* Set(k, v, 0) and Remove(k) is between two calls and the sweeper is
\* between two runs, Data() is the map the returned calls describe.
C19_DataEqualsAbstractMap ==
    (pc[Caller] = "idle" /\ sw.pc = "idle")
        => memoryData_Data(data, now) = [k \in {x \in AllKeys : abs[x] # Nil} |-> abs[k]]

\* C20 (as claimed): at every clock value Contains(k) is true exactly if k
\* is in Keys() and in Data(), and Size() is the number of keys for which
\* Contains is true.
C20_ReadAndSnapshotAgree ==
    /\ \A k \in AllKeys :
          Contains(S, k, now).ret
              <=> (k \in memoryData_Keys(data, now) /\ k \in DOMAIN memoryData_Data(data, now))
    /\ memoryData_Size(data, now) = Cardinality({k \in AllKeys : Contains(S, k, now).ret})

\* C23 (as claimed): in LRU mode, between two calls the keys of the LRU
\* list are the keys of the data map.
C23_LruTracksDataKeys ==
    lru.on => {lru.list[i] : i \in 1..Len(lru.list)} = {k \in AllKeys : data[k].has}

\* C25 (as claimed): after Close() the calls behave as on an empty cache:
\* Get(k) returns nil and Contains(k) is false for every key, and Size()
\* returns 0.
C25_ClosedBehavesEmpty ==
    closed => /\ \A k \in AllKeys : /\ Get(S, k, now).ret = NilVar
                                   /\ ~Contains(S, k, now).ret
              /\ memoryData_Size(data, now) = 0

\* C30: Close() changes the closed flag and nothing else.  A sweeper run
\* that starts on a closed cache takes the exit: it does not go on to the
\* drain, and it leaves the data map, the event list, the expire indexes
\* and the LRU list as they are.  After the exit no sweeper run starts.
\* (A run that was in progress when Close was called ends as usual.)
C30_ClosedSweeperExits ==
    [][/\ closed' # closed
          => /\ closed'
             /\ UNCHANGED <<data, eventList, expireTimes, expireSets, lru, timerExited, sw>>
       /\ (closed /\ sw.pc = "idle")
          => /\ sw'.pc = "idle"
             /\ UNCHANGED <<expireTimes, expireSets>>
       /\ (closed /\ sw.pc = "idle" /\ timerExited' # timerExited)
          => /\ timerExited'
             /\ UNCHANGED <<data, eventList, expireTimes, expireSets, lru>>
       /\ timerExited => (timerExited' /\ sw'.pc = "idle")
      ]_vars

\* C30 witness: the sweeper has taken the exit on a closed cache while an
\* event is pending and an expired entry is in the data map, both of which
\* a run would have handled.
C30_Witness ==
    /\ closed /\ timerExited /\ sw.pc = "idle"
    /\ eventList # <<>>
    /\ \E k \in AllKeys : data[k].has /\ data[k].e < now

\* The place in hist of the last call that found or wrote k, 0 if none.
TouchedAt(k) ==
    LET at == {i \in 1..Len(hist) : hist[i].k = k /\ hist[i].ok}
    IN IF at = {} THEN 0 ELSE CHOOSE i \in at : \A j \in at : j <= i

ListKeys == {lru.list[i] : i \in 1..Len(lru.list)}

\* hist is cap + 1 Sets of distinct keys and nothing else.
OnlyDistinctSets ==
    /\ Len(hist) = lru.cap + 1
    /\ \A i \in 1..Len(hist) : hist[i].op = "Set"
    /\ \A i, j \in 1..Len(hist) : i # j => hist[i].k # hist[j].k

\* C21: on a cache with LRU capacity C >= 1, after C + 1 Sets of distinct
\* keys and no other call, the keys in the data map and the keys Keys()
\* returns are the keys written except the first, C in number.
C21_FirstWrittenEvicted ==
    (lru.on /\ lru.cap >= 1 /\ OnlyDistinctSets)
        => LET written == {hist[i].k : i \in 1..Len(hist)}
           IN /\ {k \in LruKeys : data[k].has} = written \ {hist[1].k}
              /\ memoryData_Keys(data, now) = written \ {hist[1].k}
              /\ Cardinality(memoryData_Keys(data, now)) = lru.cap

\* C21 witness: capacity 2 and three Sets of distinct keys, the first of
\* which has left the data map.
C21_Witness ==
    /\ lru.on /\ lru.cap = 2 /\ OnlyDistinctSets
    /\ ~data[hist[1].k].has

\* C24 (as claimed): the LRU is on exactly if the capacity is greater than
\* 0, and on a cache without LRU or with a capacity <= 0 a Set(k, v, 0)
\* evicts nothing: Get(k) returns v afterwards and the other entries are
\* as before.
C24_NoLruWithoutCapacity ==
    /\ lru.on <=> lru.cap > 0
    /\ (~lru.on \/ lru.cap <= 0)
          => \A k \in LruKeys, v \in Vals :
                LET s1 == Set(S, k, v, 0, now).s
                IN /\ Get(s1, k, now).ret = gvarNew(v)
                   /\ \A x \in LruKeys \ {k} : s1.data[x] = data[x]

\* C28: in LRU mode with capacity >= 1, a Get, GetExpire, Update or
\* UpdateExpire that finds its key and a Set leave the key at the front of
\* the LRU list; the list holds the keys of the data map, the more
\* recently found or written the nearer the front; and a Set of a key
\* outside a full list removes from the data map exactly the key at the
\* back, the one found or written longest ago.
C28_TouchAndEvictOldest ==
    (lru.on /\ lru.cap >= 1)
        => /\ \A k \in LruKeys :
                /\ ~Get(S, k, now).ret.isNil => Head(Get(S, k, now).s.lru.list) = k
                /\ GetExpire(S, k, now).ret # -1
                      => Head(GetExpire(S, k, now).s.lru.list) = k
                /\ Update(S, k, "v2", now).exist
                      => Head(Update(S, k, "v2", now).s.lru.list) = k
                /\ UpdateExpire(S, k, 0, now).oldDuration # -1
                      => Head(UpdateExpire(S, k, 0, now).s.lru.list) = k
                /\ Head(Set(S, k, "v1", 0, now).s.lru.list) = k
           /\ ListKeys = {k \in LruKeys : data[k].has}
           /\ \A i, j \in 1..Len(lru.list) :
                i < j => TouchedAt(lru.list[i]) > TouchedAt(lru.list[j])
           /\ \A k \in LruKeys \ ListKeys :
                Len(lru.list) = lru.cap
                    => LET s1 == Set(S, k, "v1", 0, now).s
                           oldest == lru.list[Len(lru.list)]
                       IN /\ {x \in LruKeys : data[x].has /\ ~s1.data[x].has} = {oldest}
                          /\ \A x \in ListKeys : TouchedAt(oldest) <= TouchedAt(x)

\* C28 witness: capacity 2 and Set(k1); Set(k2); Get(k1); Set(k3): k2 has
\* left the data map, k1 and k3 are in it.
C28_Witness ==
    /\ lru.on /\ lru.cap = 2
    /\ hist = <<Called("Set", "k1", TRUE), Called("Set", "k2", TRUE),
                Called("Get", "k1", TRUE), Called("Set", "k3", TRUE)>>
    /\ data["k1"].has /\ ~data["k2"].has /\ data["k3"].has

\* No call and no sweeper run is in progress.
Quiescent == (\A t \in Tasks : pc[t] = "idle") /\ sw.pc = "idle"

\* C22 (as claimed): on a cache with LRU capacity C, whenever no call and
\* no sweeper run is in progress the data map holds at most C entries.
C22_CapacityHolds ==
    Quiescent => Cardinality({k \in DOMAIN data : data[k].has}) <= lru.cap

\* C26 (as claimed): after Clear the calls give the results they give on a
\* new cache; there a returned Set(k, v, 0) leaves Get(k) = v at every
\* later moment, whatever the sweeper has done in between.
C26_ClearedIsFresh ==
    (Cleared /\ pc[Caller] = "idle" /\ abs[RenewKey] # Nil)
        => /\ data[RenewKey].has
           /\ ~IsExpired(data[RenewKey], now)
           /\ data[RenewKey].v = abs[RenewKey]

\* The mutexes a task or the sweeper holds, and whether it waits for one.
Held(h) == {m \in DOMAIN mu : \E x \in mu[m] : x[1] = h}
Waits(h) ==
    IF h = Sweeper
    THEN (sw.pc = "keys" /\ sw.keys # {}) \/ sw.pc = "lru_Lock"
    ELSE pc[h] \in {"Get_RLock", "Swl_Lock", "doRemove_Lock", "Lru_Lock"}

\* C27 (as claimed): with producers that do not call the cache, no task and
\* no sweeper run waits for a mutex while it holds one, and every call and
\* every sweeper run that has started comes to its end.
C27_EveryRunCompletes ==
    /\ [](\A h \in Tasks \cup {Sweeper} : Waits(h) => Held(h) = {})
    /\ \A t \in Tasks : (pc[t] # "idle") ~> (pc[t] = "idle")
    /\ (sw.pc # "idle") ~> (sw.pc = "idle")

\* A task is about to push an event.
Pushing == \E t \in Tasks : pc[t] \in {"Push", "doRemove_push"}

\* C27 (amended): with producers that do not call the cache, no task and no
\* sweeper run waits for a mutex while it holds one, every call that has
\* started comes to its end, and every sweeper run that has started comes
\* to its end unless events are pushed again and again without end.
C27_NoDeadlock ==
    /\ [](\A h \in Tasks \cup {Sweeper} : Waits(h) => Held(h) = {})
    /\ \A t \in Tasks : (pc[t] # "idle") ~> (pc[t] = "idle")
    /\ ([]<>Pushing) \/ ((sw.pc # "idle") ~> (sw.pc = "idle"))

\* C27 witness: a producer runs inside memoryData.mu while the other task
\* and the sweeper both wait for that mutex.
C27_Witness ==
    /\ pc["t1"] = "f_locked"
    /\ pc["t2"] = "Swl_Lock"
    /\ sw.pc = "keys" /\ sw.keys # {}

\* C29: a producer of SetIfNotExistFuncLock runs with memoryData.mu held
\* for writing by its task alone, so at most one runs at a time and the
\* data map does not change while it runs; a producer of SetIfNotExistFunc
\* runs with no mutex held.
C29_LockedProducersSerialized ==
    /\ [](/\ Cardinality({t \in Tasks : pc[t] = "f_locked"}) <= 1
          /\ \A t \in Tasks : pc[t] = "f_locked" => mu["data"] = {<<t, "W">>}
          /\ \A t \in Tasks : pc[t] = "f" => Held(t) = {})
    /\ [][(\E t \in Tasks : pc[t] = "f_locked" /\ pc'[t] = "f_locked") => data' = data]_vars

\* C29 witness: a producer runs inside the mutex, the sweeper waits with a
\* key to delete, and a producer of SetIfNotExistFunc runs at the same time.
C29_Witness ==
    /\ pc["t1"] = "f_locked"
    /\ pc["t2"] = "f"
    /\ sw.pc = "keys" /\ sw.keys # {}

\* C38 (as claimed): after Update(k, nil) has returned with exist = true for
\* a key that has not expired, Get(k) returns nil and Contains(k) is false.
C38_UpdateNilDeletes ==
    (/\ last.op = "Update" /\ last.v = Nil /\ last.ok
     /\ data[last.k].has /\ ~IsExpired(data[last.k], now))
        => /\ Get(S, last.k, now).ret.isNil
           /\ ~Contains(S, last.k, now).ret

C33_NoWriteNoEvent ==
    [][((\A k \in AllKeys : ~data[k].has) /\ (\A k \in AllKeys : ~data'[k].has))
          => Len(eventList') <= Len(eventList)]_vars

\* C37 (as claimed): the map a Data() call returns while SetMap calls write
\* both keys holds none or all of the entries of a batch, never a part:
\* it is empty, or it has both keys with one value.
C37_SnapshotSeesWholeBatch ==
    last.op = "Data"
        => LET snapshot == last.var.val
           IN \/ DOMAIN snapshot = {}
              \/ /\ DOMAIN snapshot = AllKeys
                 /\ \A j, k \in AllKeys : snapshot[j] = snapshot[k]

\* C31: after every completed sweeper run the two expiry indexes agree:
\* a key the index maps to a bucket is in that bucket, which exists; every
\* key of a bucket is mapped to that bucket; no key is in two buckets.
C31_IndexesAgree ==
    /\ \A k \in AllKeys :
          expireTimes[k] # 0 =>
             /\ expireTimes[k] \in DOMAIN expireSets
             /\ k \in expireSets[expireTimes[k]]
    /\ \A b \in DOMAIN expireSets : \A k \in expireSets[b] : expireTimes[k] = b
    /\ \A b1, b2 \in DOMAIN expireSets :
          b1 # b2 => expireSets[b1] \cap expireSets[b2] = {}

\* C36: the expiry indexes do not leak.  When the calls stop and the last
\* one is a write of key k whose event carries a past expire timestamp
\* (Set with a negative duration, Remove of a present key), the sweeper
\* runs that follow leave k in no bucket and not in the index, delete the
\* bucket of that timestamp and leave no expired entry of k in the data
\* map.
PastEvent(k) ==
    /\ last.k = k
    /\ \/ last.op = "Set" /\ last.d < 0
       \/ last.op = "Remove" /\ last.var.val # Nil
Unleaked(k) ==
    /\ expireTimes[k] = 0
    /\ \A b \in DOMAIN expireSets : k \notin expireSets[b]
    /\ makeExpireKey(last.e) \notin DOMAIN expireSets
    /\ ~(data[k].has /\ IsExpired(data[k], now))
CallsStop == <>[][SweepJob \/ Advance]_vars
C36_PastEventsAreSwept ==
    \A k \in SeqKeys : (CallsStop /\ <>[]PastEvent(k)) => <>[]Unleaked(k)

\* C32: whenever the event list is empty and no call is in progress, the
\* index holds, for every key with an entry in the data map, the bucket of
\* that entry's expire timestamp.
C32_IndexMatchesData ==
    (eventList = <<>> /\ \A t \in Tasks : pc[t] = "idle") =>
        \A k \in ConcKeys : data[k].has => expireTimes[k] = makeExpireKey(data[k].e)


\* C35: when the calls stop and key k, from some point on, either holds
\* an entry written by Set with a positive duration or is fully deleted,
\* then k ends up fully deleted: no entry in the data map, no entry in the
\* index, in no bucket, no node in the LRU list.  An expired entry is not
\* contained and not counted by Size.
TimedEntry(k) == data[k].has /\ data[k].e >= StartMs /\ data[k].e # defaultMaxExpire
Deleted(k) ==
    /\ ~data[k].has
    /\ expireTimes[k] = 0
    /\ \A b \in DOMAIN expireSets : k \notin expireSets[b]
    /\ \A i \in 1..Len(lru.list) : lru.list[i] # k
ExpiredIsHidden(k) ==
    (data[k].has /\ IsExpired(data[k], now)) =>
        /\ ~Contains(S, k, now).ret
        /\ memoryData_Size(data, now) = memoryData_Size([data EXCEPT ![k] = NoItem], now)
C35_TimedEntriesAreDeleted ==
    \A k \in SeqKeys :
        /\ []ExpiredIsHidden(k)
        /\ (CallsStop /\ <>[](TimedEntry(k) \/ Deleted(k))) => <>[]Deleted(k)
====
